---- MODULE Spec2Model ----
(***************************************************************************)
(* The event-sourced collaboration core of d-zero: the event log engine    *)
(* (src/src/eventSource/EventSource.ts), the sorted merge it inserts with  *)
(* (src/unnamed/part_002) and the client role that rides on it             *)
(* (ClientEventSource, src/src/eventSource/MockReconnectingPort.test.ts).  *)
(*                                                                         *)
(* An engine is a record; every method of the class is an operator from    *)
(* the engine before the call to the engine after it.  Indices are the     *)
(* 0-based indices of the source; sequences are 1-based, so the event at   *)
(* index i is events[i + 1].                                               *)
(***************************************************************************)
EXTENDS Integers, Sequences, FiniteSets, TLC

VARIABLES
    es,       \* the engine under study (an EventSource, or the client's)
    op,       \* the last call made on it: its name and the event it names
    pending,  \* ClientEventSource.pending, a Map in insertion order
    timers,   \* ids whose retry timer is armed (every id propose generated)
    sent,     \* the messages the last handler posted on the port, in order
    inbox,    \* the message the last handler was called with, if any
    clock,    \* the last value Date.now() returned to the client
    ref,      \* a second engine, fed the merged sequence one event at a time
    pre,      \* events dispatched before an insertion
    add,      \* events handed to insertEvents
    pc,       \* position of the insertion scenario
    clients,       \* HostEventSource.clients: the registered client ids
    pastEventIds,  \* HostEventSource.pastEventIds
    posts,         \* what the last host handler posted, per client port
    filter,        \* the filterForClient the host was constructed with
    stale,         \* client ids whose port carries a listener no handle aborts
    net            \* a pair of MockReconnectingPorts and what travels between them

hostVars == <<clients, pastEventIds, posts, filter, stale>>

vars == <<es, op, pending, timers, sent, inbox, clock, ref, pre, add, pc, hostVars, net>>

----------------------------------------------------------------------------
(* Bounds *)

MaxId == 3
MaxTime == 2
MaxLog == 3
MaxSnap == 1
MaxInterval == 1
MaxIns == 2
MaxClientId == 2
MaxClientTime == 2
MaxClientLog == 2
MaxHistory == 2
MaxHostId == 1
MaxHostTime == 1
MaxHostLog == 2
MaxSubscribers == 2
MaxSubLog == 2
MaxListeners == 2
MaxListenerLog == 2
MaxDispatches == 4
MaxSnapshotInterval == 2
MaxPosts == 2
MaxListenerPosts == 1
MaxRegistryLog == 2
MaxOrderId == 2
MaxOrderTime == 2
MaxOrderLog == 2
MaxSnapshots == 2

(* Program constants *)

DefaultSnapshotInterval == 100

Ids == 1..MaxId            \* an id is its rank under String.localeCompare
Times == 1..MaxTime
Bases == {0, 1}            \* base values an embedder starts or rebaselines from
NoSource == "none"         \* propose() leaves source unset

----------------------------------------------------------------------------
(* Events and the reducer *)

BaseEvent(ids, times, types, sources) ==
    [id : ids, timestamp : times, type : types, source : sources]

(* The reducer is the embedder's.  It is modelled by the reducer that      *)
(* records every event it applied, in order, on top of a base value: two   *)
(* states are equal exactly when the same events were applied in the same  *)
(* order from the same base, so no reducer can tell apart two runs this    *)
(* one identifies.                                                         *)
BaseState(b) == [base |-> b, applied |-> <<>>]

applyEvent(state, event) ==
    [state EXCEPT !.applied = Append(@, event)]

(* FaultyEventSource.faultyApplyEvent throws on SUBTRACT. *)
faultyApplyEvent(event) ==
    event.type = "SUBTRACT"

throws(e, event) ==
    e.faulty /\ faultyApplyEvent(event)

RECURSIVE Fold(_, _)
Fold(state, events) ==
    IF events = <<>> THEN state
    ELSE Fold(applyEvent(state, Head(events)), Tail(events))

----------------------------------------------------------------------------
(* mergeSorted *)

localeCompare(a, b) ==
    IF a < b THEN -1 ELSE IF a > b THEN 1 ELSE 0

compareEvents(a, b) ==
    IF a.timestamp # b.timestamp
    THEN a.timestamp - b.timestamp
    ELSE localeCompare(a.id, b.id)

(* The elements of an array. *)
elementsOf(seq) == {seq[i] : i \in 1..Len(seq)}

(* A merge that takes the right element first when compare returns 0. *)
mergeSortedRightFirst(left, right, compare) ==
    LET loop[i \in 0..Len(left), j \in 0..Len(right)] ==
            IF i < Len(left) /\ j < Len(right)
            THEN IF compare[left[i + 1], right[j + 1]] < 0
                 THEN <<left[i + 1]>> \o loop[i + 1, j]
                 ELSE <<right[j + 1]>> \o loop[i, j + 1]
            ELSE SubSeq(left, i + 1, Len(left)) \o SubSeq(right, j + 1, Len(right))
    IN  loop[0, 0]

(* compare is a function of two elements, as the callback of the source. *)
mergeSorted(left, right, compare) ==
    LET loop[i \in 0..Len(left), j \in 0..Len(right)] ==
            IF i < Len(left) /\ j < Len(right)
            THEN IF compare[left[i + 1], right[j + 1]] <= 0
                 THEN <<left[i + 1]>> \o loop[i + 1, j]
                 ELSE <<right[j + 1]>> \o loop[i, j + 1]
            ELSE SubSeq(left, i + 1, Len(left)) \o SubSeq(right, j + 1, Len(right))
    IN  loop[0, 0]

----------------------------------------------------------------------------
(* EventSource *)

EventSource(initialState, snapshotInterval, faulty) ==
    [ events |-> <<>>,
      state |-> initialState,
      snapshots |-> <<>>,
      initialState |-> initialState,
      snapshotInterval |-> snapshotInterval,
      faulty |-> faulty,
      notified |-> <<>>,    \* the states notify() passed on during the last call
      thrown |-> FALSE,     \* the last call ended with the reducer's exception
      subscribers |-> <<>>, \* the safeCallback closures, by their number
      throwers |-> {},      \* the closures whose callback throws when called
      closures |-> 0,       \* the safeCallback closures subscribe created so far
      calls |-> <<>> ]      \* the callbacks invoked during the last call

(* A new call: nothing notified, nothing thrown yet. *)
enter(e) ==
    [e EXCEPT !.notified = <<>>, !.thrown = FALSE, !.calls = <<>>]

getState(e) ==
    e.state

(* A call of the callback outside any try: its exception leaves the call. *)
unguardedCallback(e, callback, state) ==
    [e EXCEPT !.calls = Append(@, [callback |-> callback, state |-> state]),
              !.thrown = callback \in e.throwers]

(* safeCallback(state): the call of one subscriber; what the callback      *)
(* throws is caught and logged.                                            *)
safeCallback(e, callback, state) ==
    [e EXCEPT !.calls = Append(@, [callback |-> callback, state |-> state])]

RECURSIVE callEach(_, _)
callEach(e, callbacks) ==
    IF callbacks = <<>> \/ e.thrown THEN e
    ELSE callEach(safeCallback(e, Head(callbacks), e.state), Tail(callbacks))

notify(e) ==
    callEach([e EXCEPT !.notified = Append(@, e.state)], e.subscribers)


(* Array.findIndex: the first 0-based index whose element passes the test *)
(* (a function of the element, as the callback of the source), or -1.     *)
findIndex(seq, test) ==
    IF \E i \in 1..Len(seq) : test[seq[i]]
    THEN (CHOOSE i \in 1..Len(seq) :
              test[seq[i]] /\ \A j \in 1..(i - 1) : ~test[seq[j]]) - 1
    ELSE -1

(* Array.splice(start): the elements kept and the elements removed. *)
spliceKept(seq, start) ==
    SubSeq(seq, 1, IF start < Len(seq) THEN start ELSE Len(seq))

spliceRemoved(seq, start) ==
    SubSeq(seq, start + 1, Len(seq))

(* subscribe wraps the callback in a new closure, registers and primes it. *)
subscribe(e, throwing) ==
    LET callback == e.closures + 1
        pushed == [e EXCEPT !.closures = callback,
                            !.subscribers = Append(@, callback),
                            !.throwers = IF throwing THEN @ \cup {callback} ELSE @]
    IN  safeCallback(pushed, callback, pushed.state)

(* An unsubscribe that removes the newest subscriber, whoever it is. *)
unsubscribeNewest(e, callback) ==
    [e EXCEPT !.subscribers = SubSeq(@, 1, Len(@) - 1)]

(* The function subscribe returned for the closure numbered callback. *)
unsubscribe(e, callback) ==
    LET i == findIndex(e.subscribers,
                       [x \in elementsOf(e.subscribers) |-> x = callback])
    IN  IF i # -1
        THEN [e EXCEPT !.subscribers = SubSeq(@, 1, i) \o SubSeq(@, i + 2, Len(@))]
        ELSE e

getLatestSnapshot(e) ==
    IF Len(e.snapshots) = 0
    THEN [state |-> e.initialState, eventIndex |-> 0]
    ELSE e.snapshots[Len(e.snapshots)]

dropLatestSnapshot(e) ==
    IF Len(e.snapshots) = 0 THEN e
    ELSE [e EXCEPT !.snapshots = SubSeq(@, 1, Len(@) - 1)]

RECURSIVE dropSnapshotsAfterEventIndex(_, _)
dropSnapshotsAfterEventIndex(e, eventIndex) ==
    IF getLatestSnapshot(e).eventIndex > eventIndex
    THEN dropSnapshotsAfterEventIndex(dropLatestSnapshot(e), eventIndex)
    ELSE e

createSnapshot(e) ==
    [e EXCEPT !.snapshots =
        Append(@, [state |-> e.state, eventIndex |-> Len(e.events)])]

(* The function createSnapshot returns: it removes that snapshot if it is  *)
(* still in the list.  i is the snapshot's 0-based place.                  *)
disposeSnapshot(e, i) ==
    [e EXCEPT !.snapshots = SubSeq(@, 1, i) \o SubSeq(@, i + 2, Len(@))]

(* The loop of replay: the reducer's exception leaves the loop with the    *)
(* state folded so far.                                                    *)
RECURSIVE replayLoop(_, _)
replayLoop(e, events) ==
    IF events = <<>> THEN e
    ELSE IF throws(e, Head(events)) THEN [e EXCEPT !.thrown = TRUE]
    ELSE replayLoop([e EXCEPT !.state = applyEvent(@, Head(events))], Tail(events))

(* A replay that notifies after every event it folds. *)
RECURSIVE replayNotifyingEach(_, _)
replayNotifyingEach(e, events) ==
    IF events = <<>> THEN e
    ELSE replayNotifyingEach(notify([e EXCEPT !.state = applyEvent(@, Head(events))]),
                             Tail(events))

(* A replay that also appends what it folds to the log. *)
replayAppending(e, events) ==
    LET folded == replayLoop([e EXCEPT !.events = @ \o events], events)
    IN  IF folded.thrown THEN folded ELSE notify(folded)

replay(e, events) ==
    LET folded == replayLoop(e, events)
    IN  IF folded.thrown THEN folded ELSE notify(folded)

(* A dispatch that waits one event too long for its snapshot. *)
dispatchSnapshotLate(e, event) ==
    LET pushed == [e EXCEPT !.events = Append(@, event)]
    IN  IF throws(e, event) THEN [pushed EXCEPT !.thrown = TRUE]
        ELSE LET applied == notify([pushed EXCEPT !.state = applyEvent(@, event)])
             IN  IF applied.thrown THEN applied
                 ELSE IF Len(applied.events) - getLatestSnapshot(applied).eventIndex
                             > applied.snapshotInterval
                 THEN createSnapshot(applied)
                 ELSE applied

dispatch(e, event) ==
    LET pushed == [e EXCEPT !.events = Append(@, event)]
    IN  IF throws(e, event) THEN [pushed EXCEPT !.thrown = TRUE]
        ELSE LET applied == notify([pushed EXCEPT !.state = applyEvent(@, event)])
             IN  IF applied.thrown THEN applied
                 ELSE IF Len(applied.events) - getLatestSnapshot(applied).eventIndex
                             >= applied.snapshotInterval
                 THEN createSnapshot(applied)
                 ELSE applied

(* A rollback that truncates the log and forgets to restore the state. *)
rollbackKeepingState(e) ==
    [e EXCEPT !.events = spliceKept(@, getLatestSnapshot(e).eventIndex)]

rollbackToSnapshotSilent(e) ==
    LET snapshot == getLatestSnapshot(e)
    IN  [e EXCEPT !.state = snapshot.state,
                  !.events = spliceKept(@, snapshot.eventIndex)]

(* A removal that replays from the snapshot only the events behind the     *)
(* removed one.                                                            *)
removeEventReplayingTail(e, event) ==
    LET index == findIndex(e.events, [x \in elementsOf(e.events) |-> x.id = event.id])
    IN  IF index = -1 THEN e
        ELSE LET dropped == dropSnapshotsAfterEventIndex(e, index)
                 snapshot == getLatestSnapshot(dropped)
                 eventsToReplay ==
                     SelectSeq(spliceRemoved(dropped.events, snapshot.eventIndex),
                               LAMBDA x : x.id # event.id)
             IN  replay([dropped EXCEPT
                            !.state = snapshot.state,
                            !.events = spliceKept(@, snapshot.eventIndex)
                                           \o eventsToReplay],
                        spliceRemoved(dropped.events, index + 1))

(* A removal that rewinds behind the snapshots it invalidates and then    *)
(* keeps them.                                                             *)
removeEventKeepingSnapshots(e, event) ==
    LET index == findIndex(e.events, [x \in elementsOf(e.events) |-> x.id = event.id])
    IN  IF index = -1 THEN e
        ELSE LET dropped == dropSnapshotsAfterEventIndex(e, index)
                 snapshot == getLatestSnapshot(dropped)
                 eventsToReplay ==
                     SelectSeq(spliceRemoved(dropped.events, snapshot.eventIndex),
                               LAMBDA x : x.id # event.id)
             IN  replay([dropped EXCEPT
                            !.state = snapshot.state,
                            !.snapshots = e.snapshots,
                            !.events = spliceKept(@, snapshot.eventIndex)
                                           \o eventsToReplay],
                        eventsToReplay)

(* A removal that notifies also when the event is not in the log. *)
removeEventNotifyingUnknown(e, event) ==
    LET index == findIndex(e.events, [x \in elementsOf(e.events) |-> x.id = event.id])
    IN  IF index = -1 THEN notify(e)
        ELSE LET dropped == dropSnapshotsAfterEventIndex(e, index)
                 snapshot == getLatestSnapshot(dropped)
                 eventsToReplay ==
                     SelectSeq(spliceRemoved(dropped.events, snapshot.eventIndex),
                               LAMBDA x : x.id # event.id)
             IN  replay([dropped EXCEPT
                            !.state = snapshot.state,
                            !.events = spliceKept(@, snapshot.eventIndex)
                                           \o eventsToReplay],
                        eventsToReplay)

removeEvent(e, event) ==
    LET index == findIndex(e.events, [x \in elementsOf(e.events) |-> x.id = event.id])
    IN  IF index = -1 THEN e
        ELSE LET dropped == dropSnapshotsAfterEventIndex(e, index)
                 snapshot == getLatestSnapshot(dropped)
                 eventsToReplay ==
                     SelectSeq(spliceRemoved(dropped.events, snapshot.eventIndex),
                               LAMBDA x : x.id # event.id)
             IN  replay([dropped EXCEPT
                            !.state = snapshot.state,
                            !.events = spliceKept(@, snapshot.eventIndex)
                                           \o eventsToReplay],
                        eventsToReplay)

(* An insertion that rewinds past the invalidated snapshots and then keeps *)
(* them.                                                                   *)
insertEventsKeepingSnapshots(e, events) ==
    IF Len(events) = 0 THEN e
    ELSE LET firstNewEventTimestamp == events[1].timestamp
             postEventIndex ==
                 findIndex(e.events, [x \in elementsOf(e.events) |->
                                         x.timestamp > firstNewEventTimestamp])
             insertIndex ==
                 IF postEventIndex = -1 THEN Len(e.events) ELSE postEventIndex
             dropped == dropSnapshotsAfterEventIndex(e, insertIndex)
             existingEvents ==
                 spliceRemoved(dropped.events, getLatestSnapshot(dropped).eventIndex)
             rolled == rollbackToSnapshotSilent(dropped)
             compare == [a \in elementsOf(existingEvents \o events),
                         b \in elementsOf(existingEvents \o events) |->
                            compareEvents(a, b)]
             newEvents == mergeSorted(existingEvents, events, compare)
         IN  replay([rolled EXCEPT !.events = @ \o newEvents,
                                   !.snapshots = e.snapshots], newEvents)

insertEvents(e, events) ==
    IF Len(events) = 0 THEN e
    ELSE LET firstNewEventTimestamp == events[1].timestamp
             postEventIndex ==
                 findIndex(e.events, [x \in elementsOf(e.events) |->
                                         x.timestamp > firstNewEventTimestamp])
             insertIndex ==
                 IF postEventIndex = -1 THEN Len(e.events) ELSE postEventIndex
             dropped == dropSnapshotsAfterEventIndex(e, insertIndex)
             existingEvents ==
                 spliceRemoved(dropped.events, getLatestSnapshot(dropped).eventIndex)
             rolled == rollbackToSnapshotSilent(dropped)
             compare == [a \in elementsOf(existingEvents \o events),
                         b \in elementsOf(existingEvents \o events) |->
                            compareEvents(a, b)]
             newEvents == mergeSorted(existingEvents, events, compare)
         IN  replay([rolled EXCEPT !.events = @ \o newEvents], newEvents)

(* A rebaseline that keeps the constructor's initial state as the base. *)
rebaselineKeepingBase(e, state) ==
    notify([e EXCEPT !.events = <<>>,
                     !.snapshots = <<>>,
                     !.state = state])

rebaseline(e, state) ==
    notify([e EXCEPT !.initialState = state,
                     !.events = <<>>,
                     !.snapshots = <<>>,
                     !.state = state])

----------------------------------------------------------------------------
(* Inputs *)

CoreEvents == BaseEvent(Ids, Times, {"ADD"}, {"host"})

idsOf(events) == {events[i].id : i \in 1..Len(events)}

(* Strictly ascending by (timestamp, id). *)
Ascending(events) ==
    \A i \in 1..(Len(events) - 1) : compareEvents(events[i], events[i + 1]) < 0

DistinctIds(events) ==
    \A i, j \in 1..Len(events) : i # j => events[i].id # events[j].id

(* The sequences over E of at most n events, strictly ascending by        *)
(* (timestamp, id) and with distinct ids.                                  *)
RECURSIVE AscendingSeqs(_, _)
AscendingSeqs(E, n) ==
    IF n = 0 THEN {<<>>}
    ELSE LET shorter == AscendingSeqs(E, n - 1)
         IN  shorter \cup
             {Append(s, x) : <<s, x>> \in
                 {sx \in shorter \X E :
                     /\ Len(sx[1]) = n - 1
                     /\ sx[2].id \notin idsOf(sx[1])
                     /\ sx[1] # <<>> =>
                            compareEvents(sx[1][Len(sx[1])], sx[2]) < 0}}

(* What insertEvents may be handed: sorted ascending, ids distinct and new *)
(* to the log.                                                             *)
Insertable(E, log) ==
    LET room == IF MaxLog - Len(log) < MaxIns THEN MaxLog - Len(log) ELSE MaxIns
    IN  AscendingSeqs({x \in E : x.id \notin idsOf(log)}, room)

(* What dispatch may be handed: greater than the current tail. *)
AtTail(event, log) ==
    /\ event.id \notin idsOf(log)
    /\ log # <<>> => compareEvents(log[Len(log)], event) < 0

Op(name, id) == [name |-> name, id |-> id]

(* The event a caller hands to removeEvent for an id: the log's own entry, *)
(* or one that is not in the log.                                          *)
Named(id, log) ==
    IF id \in idsOf(log)
    THEN log[CHOOSE i \in 1..Len(log) :
                 log[i].id = id /\ \A j \in 1..(i - 1) : log[j].id # id]
    ELSE [id |-> id, timestamp |-> 1, type |-> "ADD", source |-> "host"]

----------------------------------------------------------------------------
(* The engine on its own *)

NoPorts == "none"

NoHost ==
    /\ clients = {}
    /\ pastEventIds = {}
    /\ posts = <<>>
    /\ filter = <<>>
    /\ stale = {}

Idle ==
    /\ NoHost
    /\ pending = <<>>
    /\ timers = {}
    /\ sent = <<>>
    /\ inbox = <<>>
    /\ clock = 0
    /\ ref = 0
    /\ pre = <<>>
    /\ add = <<>>
    /\ pc = "engine"
    /\ net = NoPorts

Still ==
    UNCHANGED <<pending, timers, sent, inbox, clock, ref, pre, add, pc, hostVars, net>>

Init ==
    /\ \E n \in 1..MaxInterval : es = EventSource(BaseState(0), n, FALSE)
    /\ op = Op("new", 0)
    /\ Idle

Dispatch ==
    \E event \in CoreEvents :
        /\ Len(es.events) < MaxLog
        /\ AtTail(event, es.events)
        /\ es' = dispatch(enter(es), event)
        /\ op' = Op("dispatch", event.id)
        /\ Still

InsertEvents ==
    \E events \in Insertable(CoreEvents, es.events) :
        /\ es' = insertEvents(enter(es), events)
        /\ op' = Op("insertEvents", IF events = <<>> THEN 0 ELSE events[1].id)
        /\ Still

RemoveEvent ==
    \E id \in Ids :
        /\ es' = removeEvent(enter(es), Named(id, es.events))
        /\ op' = Op("removeEvent", id)
        /\ Still

CreateSnapshot ==
    /\ Len(es.snapshots) < MaxSnap
    /\ es' = createSnapshot(enter(es))
    /\ op' = Op("createSnapshot", 0)
    /\ Still

DisposeSnapshot ==
    \E i \in 0..(Len(es.snapshots) - 1) :
        /\ es' = disposeSnapshot(enter(es), i)
        /\ op' = Op("disposeSnapshot", 0)
        /\ Still

Rebaseline ==
    \E b \in Bases :
        /\ es' = rebaseline(enter(es), BaseState(b))
        /\ op' = Op("rebaseline", 0)
        /\ Still

Next ==
    \/ Dispatch
    \/ InsertEvents
    \/ RemoveEvent
    \/ CreateSnapshot
    \/ DisposeSnapshot
    \/ Rebaseline

Spec == Init /\ [][Next]_vars

----------------------------------------------------------------------------
(* The engine and its subscribers *)

InitSubscribers ==
    /\ \E n \in 1..MaxInterval : es = EventSource(BaseState(0), n, FALSE)
    /\ op = Op("new", 0)
    /\ Idle

(* subscribe with a callback that returns. *)
Subscribe ==
    /\ es.closures < MaxSubscribers
    /\ es' = subscribe(enter(es), FALSE)
    /\ op' = Op("subscribe", es.closures + 1)
    /\ Still

(* Any unsubscribe function handed out so far is called, again or not. *)
Unsubscribe ==
    \E callback \in 1..es.closures :
        /\ es' = unsubscribe(enter(es), callback)
        /\ op' = Op("unsubscribe", callback)
        /\ Still

SubscribedDispatch ==
    \E event \in CoreEvents :
        /\ Len(es.events) < MaxSubLog
        /\ AtTail(event, es.events)
        /\ es' = dispatch(enter(es), event)
        /\ op' = Op("dispatch", event.id)
        /\ Still

SubscribedInsertEvents ==
    \E event \in CoreEvents :
        /\ Len(es.events) < MaxSubLog
        /\ event.id \notin idsOf(es.events)
        /\ es' = insertEvents(enter(es), <<event>>)
        /\ op' = Op("insertEvents", event.id)
        /\ Still

SubscribedRemoveEvent ==
    \E id \in idsOf(es.events) :
        /\ es' = removeEvent(enter(es), Named(id, es.events))
        /\ op' = Op("removeEvent", id)
        /\ Still

SubscribedRebaseline ==
    \E b \in Bases :
        /\ es' = rebaseline(enter(es), BaseState(b))
        /\ op' = Op("rebaseline", 0)
        /\ Still

NextSubscribers ==
    \/ Subscribe
    \/ Unsubscribe
    \/ SubscribedDispatch
    \/ SubscribedInsertEvents
    \/ SubscribedRemoveEvent
    \/ SubscribedRebaseline

SpecSubscribers == InitSubscribers /\ [][NextSubscribers]_vars

----------------------------------------------------------------------------
(* The engine with listeners that may throw *)

(* The events the listened engine is driven with: two ids, two times. *)
ListenerIds == {1, 2}
ListenerEvents == BaseEvent(ListenerIds, {1, 2}, {"ADD"}, {"host"})

(* subscribe with a callback that throws on every call, or with one that   *)
(* returns.                                                                *)
ListenerSubscribe ==
    \E throwing \in BOOLEAN :
        /\ es.closures < MaxListeners
        /\ es' = subscribe(enter(es), throwing)
        /\ op' = Op("subscribe", es.closures + 1)
        /\ Still

ListenerDispatch ==
    \E event \in ListenerEvents :
        /\ Len(es.events) < MaxListenerLog
        /\ AtTail(event, es.events)
        /\ es' = dispatch(enter(es), event)
        /\ op' = Op("dispatch", event.id)
        /\ Still

(* insertEvents with no event, or with one whose id is new to the log. *)
ListenerInsertEvents ==
    \E events \in AscendingSeqs(ListenerEvents, 1) :
        /\ Len(es.events) + Len(events) <= MaxListenerLog
        /\ idsOf(events) \cap idsOf(es.events) = {}
        /\ es' = insertEvents(enter(es), events)
        /\ op' = Op("insertEvents", Len(events))
        /\ Still

(* removeEvent with an event of the log, or with one that is not in it. *)
ListenerRemoveEvent ==
    \E id \in ListenerIds :
        /\ es' = removeEvent(enter(es), Named(id, es.events))
        /\ op' = Op("removeEvent", id)
        /\ Still

(* replay of up to two events, on an engine whose state is not ahead of    *)
(* its log.                                                                *)
ListenerReplay ==
    \E events \in AscendingSeqs(ListenerEvents, 2) :
        /\ Len(es.state.applied) = Len(es.events)
        /\ es' = replay(enter(es), events)
        /\ op' = Op("replay", Len(events))
        /\ Still

ListenerRebaseline ==
    \E b \in Bases :
        /\ es' = rebaseline(enter(es), BaseState(b))
        /\ op' = Op("rebaseline", b)
        /\ Still

NextListeners ==
    \/ ListenerSubscribe
    \/ ListenerDispatch
    \/ ListenerInsertEvents
    \/ ListenerRemoveEvent
    \/ ListenerReplay
    \/ ListenerRebaseline

SpecListeners == InitSubscribers /\ [][NextListeners]_vars

----------------------------------------------------------------------------
(* The engine whose embedder takes snapshots of its own *)

(* createSnapshot, called again while the list is short of MaxSnapshots,   *)
(* with or without a dispatch since the last call.                         *)
CreateSnapshots ==
    /\ Len(es.snapshots) < MaxSnapshots
    /\ es' = createSnapshot(enter(es))
    /\ op' = Op("createSnapshot", 0)
    /\ Still

NextSnapshots ==
    \/ ListenerDispatch
    \/ ListenerInsertEvents
    \/ ListenerRemoveEvent
    \/ ListenerRebaseline
    \/ CreateSnapshots
    \/ DisposeSnapshot

SpecSnapshots == InitSubscribers /\ [][NextSnapshots]_vars

----------------------------------------------------------------------------
(* A fresh engine that is only dispatched to *)

InitDispatching ==
    /\ \E n \in 1..MaxSnapshotInterval : es = EventSource(BaseState(0), n, FALSE)
    /\ op = Op("new", 0)
    /\ Idle

DispatchedEvents == BaseEvent(1..MaxDispatches, {1, 2}, {"ADD"}, {"host"})

DispatchNext ==
    \E event \in DispatchedEvents :
        /\ Len(es.events) < MaxDispatches
        /\ AtTail(event, es.events)
        /\ es' = dispatch(enter(es), event)
        /\ op' = Op("dispatch", event.id)
        /\ Still

NextDispatching ==
    DispatchNext

SpecDispatching == InitDispatching /\ [][NextDispatching]_vars

----------------------------------------------------------------------------
(* The engine with a reducer that throws (FaultyEventSource) *)

(* Every event of the core, and SUBTRACT events at the latest timestamp. *)
FaultEvents ==
    CoreEvents \cup BaseEvent(Ids, {MaxTime}, {"SUBTRACT"}, {"host"})

InitFaulty ==
    /\ \E n \in 1..MaxInterval : es = EventSource(BaseState(0), n, TRUE)
    /\ op = Op("new", 0)
    /\ Idle

FaultyDispatch ==
    \E event \in FaultEvents :
        /\ Len(es.events) < MaxLog
        /\ AtTail(event, es.events)
        /\ es' = dispatch(enter(es), event)
        /\ op' = Op("dispatch", event.id)
        /\ Still

FaultyInsertEvents ==
    \E events \in Insertable(FaultEvents, es.events) :
        /\ es' = insertEvents(enter(es), events)
        /\ op' = Op("insertEvents", IF events = <<>> THEN 0 ELSE events[1].id)
        /\ Still

FaultyRemoveEvent ==
    \E id \in Ids :
        /\ es' = removeEvent(enter(es), Named(id, es.events))
        /\ op' = Op("removeEvent", id)
        /\ Still

FaultyReplay ==
    \E events \in AscendingSeqs(FaultEvents, MaxIns) :
        /\ Len(es.state.applied) + Len(events) <= MaxLog
        /\ es' = replay(enter(es), events)
        /\ op' = Op("replay", IF events = <<>> THEN 0 ELSE events[1].id)
        /\ Still

NextFaulty ==
    \/ FaultyDispatch
    \/ FaultyInsertEvents
    \/ FaultyRemoveEvent
    \/ FaultyReplay

SpecFaulty == InitFaulty /\ [][NextFaulty]_vars

----------------------------------------------------------------------------
(* Dispatching pre and inserting add, beside dispatching their sorted      *)
(* union one event at a time                                               *)

merged ==
    SortSeq(pre \o add, LAMBDA a, b : compareEvents(a, b) < 0)

InitInsertion ==
    /\ pre \in AscendingSeqs(CoreEvents, MaxLog)
    /\ add \in Insertable(CoreEvents, pre)
    /\ \E n \in (1..MaxInterval) \cup {DefaultSnapshotInterval} :
           /\ es = EventSource(BaseState(0), n, FALSE)
           /\ ref = EventSource(BaseState(0), n, FALSE)
    /\ op = Op("new", 0)
    /\ pc = "pre"
    /\ NoHost
    /\ net = NoPorts
    /\ pending = <<>>
    /\ timers = {}
    /\ sent = <<>>
    /\ inbox = <<>>
    /\ clock = 0

DispatchPre ==
    /\ pc = "pre"
    /\ Len(es.events) < Len(pre)
    /\ es' = dispatch(enter(es), pre[Len(es.events) + 1])
    /\ op' = Op("dispatch", pre[Len(es.events) + 1].id)
    /\ UNCHANGED <<pending, timers, sent, inbox, clock, ref, pre, add, pc, hostVars, net>>

InsertAdd ==
    /\ pc = "pre"
    /\ Len(es.events) = Len(pre)
    /\ es' = insertEvents(enter(es), add)
    /\ op' = Op("insertEvents", IF add = <<>> THEN 0 ELSE add[1].id)
    /\ pc' = IF merged = <<>> THEN "done" ELSE "merged"
    /\ UNCHANGED <<pending, timers, sent, inbox, clock, ref, pre, add, hostVars, net>>

DispatchMerged ==
    /\ pc = "merged"
    /\ Len(ref.events) < Len(merged)
    /\ ref' = dispatch(enter(ref), merged[Len(ref.events) + 1])
    /\ pc' = IF Len(ref.events) + 1 = Len(merged) THEN "done" ELSE "merged"
    /\ UNCHANGED <<es, op, pending, timers, sent, inbox, clock, pre, add, hostVars, net>>

NextInsertion ==
    \/ DispatchPre
    \/ InsertAdd
    \/ DispatchMerged

SpecInsertion == InitInsertion /\ [][NextInsertion]_vars

----------------------------------------------------------------------------
(* ClientEventSource *)

(* The roles call the engine's dispatch under the name dispatchEvent. *)
dispatchEvent(e, event) ==
    dispatch(e, event)

(* EventMessage *)
EventMsg(event) == [type |-> "event", event |-> event]
RejectionMsg(eventId) == [type |-> "rejection", eventId |-> eventId]
RequestHistoryMsg(since) == [type |-> "requestHistory", since |-> since]
EventHistoryMsg(events) == [type |-> "eventHistory", events |-> events]

(* A Map from id to event, in insertion order: has, get, delete, set. *)
mapHas(map, id) ==
    id \in idsOf(map)

mapGet(map, id) ==
    map[CHOOSE i \in 1..Len(map) : map[i].id = id]

mapDelete(map, id) ==
    SelectSeq(map, LAMBDA x : x.id # id)

mapSet(map, id, event) ==
    IF mapHas(map, id)
    THEN [i \in 1..Len(map) |-> IF map[i].id = id THEN event ELSE map[i]]
    ELSE Append(map, event)

(* A client is its engine, its pending map, its armed retry timers and     *)
(* what it posted on its port during the current handler.                  *)
ClientEventSource(initialState) ==
    [ es |-> EventSource(initialState, DefaultSnapshotInterval, FALSE),
      pending |-> <<>>,
      timers |-> {},
      sent |-> <<>> ]

postMessage(c, message) ==
    [c EXCEPT !.sent = Append(@, message)]

sendToHost(c, event) ==
    postMessage(c, EventMsg(event))

requestEventHistory(c, sinceTimestamp) ==
    postMessage(c, RequestHistoryMsg(sinceTimestamp))

(* propose: id is what generateEventId() returned, now what Date.now()     *)
(* returned; the event has no source.  The retry timer is armed.           *)
propose(c, eventData, id, now) ==
    LET proposedEvent ==
            [id |-> id, timestamp |-> now, type |-> eventData, source |-> NoSource]
        set == [c EXCEPT !.pending = mapSet(@, id, proposedEvent)]
        dispatched == [set EXCEPT !.es = dispatchEvent(@, proposedEvent)]
        posted == sendToHost(dispatched, proposedEvent)
    IN  [posted EXCEPT !.timers = @ \cup {id}]

(* The retry timer of a proposal fires: it resends while the proposal is   *)
(* pending, and arms itself again.                                         *)
retry(c, id) ==
    IF mapHas(c.pending, id)
    THEN sendToHost(c, mapGet(c.pending, id))
    ELSE c

receiveFromHost(c, event) ==
    LET deleted == [c EXCEPT !.pending = mapDelete(@, event.id)]
    IN  [deleted EXCEPT !.es = dispatchEvent(@, event)]

(* A rejection that forgets the proposal and leaves its event in the log. *)
rejectKeepingEvent(c, eventId) ==
    IF ~mapHas(c.pending, eventId) THEN c
    ELSE [c EXCEPT !.pending = mapDelete(@, eventId)]

(* A rejection that removes the event from the log and keeps the proposal *)
(* pending.                                                                *)
rejectKeepingPending(c, eventId) ==
    IF ~mapHas(c.pending, eventId) THEN c
    ELSE [c EXCEPT !.es = removeEvent(@, mapGet(c.pending, eventId))]

rejectPendingEvent(c, eventId) ==
    IF ~mapHas(c.pending, eventId) THEN c
    ELSE LET rejectedEvent == mapGet(c.pending, eventId)
             deleted == [c EXCEPT !.pending = mapDelete(@, eventId)]
         IN  [deleted EXCEPT !.es = removeEvent(@, rejectedEvent)]

(* The port's 'message' listener. *)
onMessage(c, data) ==
    IF data.type = "event" THEN receiveFromHost(c, data.event)
    ELSE IF data.type = "rejection" THEN rejectPendingEvent(c, data.eventId)
    ELSE IF data.type = "eventHistory"
         THEN [c EXCEPT !.es = insertEvents(@, data.events)]
    ELSE c

RECURSIVE sendAll(_, _)
sendAll(c, events) ==
    IF events = <<>> THEN c
    ELSE sendAll(sendToHost(c, Head(events)), Tail(events))

(* A 'connected' listener that resends the whole log. *)
onConnectedResendingLog(c) ==
    LET resent == sendAll(c, c.es.events)
        latestTimestamp ==
            IF Len(c.es.events) = 0 THEN 0
            ELSE c.es.events[Len(c.es.events)].timestamp
    IN  requestEventHistory(resent, latestTimestamp)

(* The port's 'connected' listener. *)
onConnected(c) ==
    LET resent == sendAll(c, c.pending)
        latestTimestamp ==
            IF Len(c.es.events) = 0 THEN 0
            ELSE c.es.events[Len(c.es.events)].timestamp
    IN  requestEventHistory(resent, latestTimestamp)

----------------------------------------------------------------------------
(* The client, fed by its port *)

ClientId == "client"
ClientIds == 1..MaxClientId
ClientTimes == 1..MaxClientTime

(* The authoritative events a host can send: the source of an id this      *)
(* client proposed is this client, of any other id the host.               *)
HostEvents ==
    {x \in BaseEvent(ClientIds, ClientTimes, {"ADD"}, {ClientId, "host"}) :
        x.source = ClientId <=> x.id \in timers}

(* Sequences in the order of a host log: timestamps never decrease, ids    *)
(* are distinct.                                                           *)
RECURSIVE HostOrderedSeqs(_, _)
HostOrderedSeqs(E, n) ==
    IF n <= 0 THEN {<<>>}
    ELSE LET shorter == HostOrderedSeqs(E, n - 1)
         IN  shorter \cup
             {Append(sx[1], sx[2]) : sx \in
                 {sx \in shorter \X E :
                     /\ Len(sx[1]) = n - 1
                     /\ sx[2].id \notin idsOf(sx[1])
                     /\ sx[1] # <<>> =>
                            sx[1][Len(sx[1])].timestamp <= sx[2].timestamp}}

(* The client as a record, at the start of a handler. *)
client ==
    [es |-> enter(es), pending |-> pending, timers |-> timers, sent |-> <<>>]

Becomes(c) ==
    /\ es' = c.es
    /\ pending' = c.pending
    /\ timers' = c.timers
    /\ sent' = c.sent

InitClient ==
    /\ LET c == ClientEventSource(BaseState(0))
       IN  /\ es = c.es
           /\ pending = c.pending
           /\ timers = c.timers
           /\ sent = c.sent
    /\ op = Op("new", 0)
    /\ inbox = <<>>
    /\ clock = 0
    /\ ref = 0
    /\ pre = <<>>
    /\ add = <<>>
    /\ pc = "client"
    /\ NoHost
    /\ net = NoPorts

Propose ==
    \E id \in ClientIds \ (timers \cup idsOf(es.events)), now \in ClientTimes :
        /\ Len(es.events) < MaxClientLog
        /\ now >= clock
        /\ Becomes(propose(client, "ADD", id, now))
        /\ clock' = now
        /\ op' = Op("propose", id)
        /\ inbox' = <<>>
        /\ UNCHANGED <<ref, pre, add, pc, hostVars, net>>

Retry ==
    \E id \in timers :
        /\ Becomes(retry(client, id))
        /\ op' = Op("retry", id)
        /\ inbox' = <<>>
        /\ UNCHANGED <<clock, ref, pre, add, pc, hostVars, net>>

Connected ==
    /\ Becomes(onConnected(client))
    /\ op' = Op("connected", 0)
    /\ inbox' = <<>>
    /\ UNCHANGED <<clock, ref, pre, add, pc, hostVars, net>>

ReceiveEvent ==
    \E event \in HostEvents :
        /\ Len(es.events) < MaxClientLog
        /\ Becomes(onMessage(client, EventMsg(event)))
        /\ op' = Op("receiveFromHost", event.id)
        /\ inbox' = EventMsg(event)
        /\ UNCHANGED <<clock, ref, pre, add, pc, hostVars, net>>

ReceiveRejection ==
    \E eventId \in timers :
        /\ Becomes(onMessage(client, RejectionMsg(eventId)))
        /\ op' = Op("rejectPendingEvent", eventId)
        /\ inbox' = RejectionMsg(eventId)
        /\ UNCHANGED <<clock, ref, pre, add, pc, hostVars, net>>

ReceiveHistory ==
    \E events \in HostOrderedSeqs(HostEvents,
                     IF MaxClientLog - Len(es.events) < MaxHistory
                     THEN MaxClientLog - Len(es.events) ELSE MaxHistory) :
        /\ Becomes(onMessage(client, EventHistoryMsg(events)))
        /\ op' = Op("eventHistory", IF events = <<>> THEN 0 ELSE events[1].id)
        /\ inbox' = EventHistoryMsg(events)
        /\ UNCHANGED <<clock, ref, pre, add, pc, hostVars, net>>

NextClient ==
    \/ Propose
    \/ Retry
    \/ Connected
    \/ ReceiveEvent
    \/ ReceiveRejection
    \/ ReceiveHistory

SpecClient == InitClient /\ [][NextClient]_vars

(* The client whose armed timers fire: setTimeout calls an armed retry     *)
(* back after its delay.                                                   *)
SpecClientLive == InitClient /\ [][NextClient]_vars /\ WF_vars(Retry)

----------------------------------------------------------------------------
(* HostEventSource *)

(* BaseEvent<Payload>: the event shape of the host. *)
PayloadEvent(ids, times, sources, payloads) ==
    [id : ids, timestamp : times, source : sources, payload : payloads]

Null == "null"               \* what filterForClient returns to suppress
HostSource == "host"
Clients == {"c1", "c2"}
Payloads == {"ADD", ""}      \* "" is a payload that JavaScript takes for false

(* if (filtered): null is false, and so is the empty string. *)
truthy(value) ==
    value # Null /\ value # ""

(* A host is its engine, its client registry, its past-id set, the         *)
(* filterForClient it was constructed with and what it posted on each      *)
(* client's port during the current handler.  Every client id has one      *)
(* port; stale holds the ids whose port carries the listener of an         *)
(* addClient whose registry entry, and with it the abort handle, a later   *)
(* addClient for the same id has overwritten.                              *)
HostEventSource(initialState, filterForClient) ==
    [ es |-> EventSource(initialState, DefaultSnapshotInterval, FALSE),
      clients |-> {},
      pastEventIds |-> {},
      filterForClient |-> filterForClient,
      posts |-> [c \in Clients |-> <<>>],
      stale |-> {} ]

postTo(h, clientId, message) ==
    [h EXCEPT !.posts[clientId] = Append(@, message)]

(* valid is what the injected validate returned; it is only asked when the *)
(* id is not a past id.                                                    *)
validateClientEvent(h, proposedEvent, clientId, valid) ==
    IF proposedEvent.id \in h.pastEventIds THEN FALSE
    ELSE valid

(* A rejection that is posted to every registered client. *)
sendRejectionToEveryClient(h, eventId, clientId) ==
    [h EXCEPT !.posts =
        [c \in Clients |->
            IF c \in h.clients THEN Append(h.posts[c], RejectionMsg(eventId))
            ELSE h.posts[c]]]

sendRejectionToClient(h, eventId, clientId) ==
    IF clientId \in h.clients
    THEN postTo(h, clientId, RejectionMsg(eventId))
    ELSE h

(* now is what Date.now() returned. *)
receiveFromClient(h, proposedEvent, clientId, valid, now) ==
    IF ~validateClientEvent(h, proposedEvent, clientId, valid)
    THEN sendRejectionToClient(h, proposedEvent.id, clientId)
    ELSE LET authoritativeEvent ==
                 [id |-> proposedEvent.id,
                  payload |-> proposedEvent.payload,
                  timestamp |-> now,
                  source |-> clientId]
         IN  [h EXCEPT !.es = dispatchEvent(@, authoritativeEvent)]

(* The loop of broadcast over this.clients.entries(): entries are the      *)
(* registered ids in the Map's order, failing the ids whose port throws    *)
(* from postMessage.  Nothing catches what postMessage throws: it leaves   *)
(* the loop, broadcast and the caller of broadcast.                        *)
RECURSIVE broadcast(_, _, _, _)
broadcast(h, authoritativeEvent, entries, failing) ==
    IF entries = <<>> THEN h
    ELSE LET otherClientId == Head(entries)
             filtered ==
                 h.filterForClient[authoritativeEvent.payload, otherClientId]
         IN  IF ~truthy(filtered)
             THEN broadcast(h, authoritativeEvent, Tail(entries), failing)
             ELSE IF otherClientId \in failing
             THEN [h EXCEPT !.es.thrown = TRUE]
             ELSE broadcast(postTo(h, otherClientId,
                                   EventMsg([authoritativeEvent EXCEPT
                                                !.payload = filtered])),
                            authoritativeEvent, Tail(entries), failing)

(* HostEventSource.dispatch: id is what generateEventId() returned, now    *)
(* what Date.now() returned.                                               *)
hostDispatch(h, payload, id, now, entries, failing) ==
    LET event ==
            [id |-> id, source |-> HostSource, timestamp |-> now, payload |-> payload]
        added == [h EXCEPT !.pastEventIds = @ \cup {event.id}]
        dispatched == [added EXCEPT !.es = dispatchEvent(@, event)]
    IN  broadcast(dispatched, event, entries, failing)

(* A history that starts at since instead of after it. *)
eventsToSendFromSince(h, clientId, since) ==
    LET newer == SelectSeq(h.es.events, LAMBDA e : e.timestamp >= since)
        shown == SelectSeq(newer,
                     LAMBDA e : h.filterForClient[e.payload, clientId] # Null)
    IN  [i \in 1..Len(shown) |->
            [shown[i] EXCEPT !.payload = h.filterForClient[@, clientId]]]

(* The events a requestHistory from clientId is answered with. *)
eventsToSend(h, clientId, since) ==
    LET newer == SelectSeq(h.es.events, LAMBDA e : e.timestamp > since)
        shown == SelectSeq(newer,
                     LAMBDA e : h.filterForClient[e.payload, clientId] # Null)
    IN  [i \in 1..Len(shown) |->
            [shown[i] EXCEPT !.payload = h.filterForClient[@, clientId]]]

(* The 'message' listener addClient puts on the port of clientId. *)
onClientMessage(h, clientId, data, valid, now) ==
    IF data.type = "event"
    THEN receiveFromClient(h, data.event, clientId, valid, now)
    ELSE IF data.type = "requestHistory"
    THEN postTo(h, clientId, EventHistoryMsg(eventsToSend(h, clientId, data.since)))
    ELSE h

(* The listener goes on the port under a new AbortController, and         *)
(* clients.set replaces the entry that held the previous one.              *)
addClient(h, clientId) ==
    [h EXCEPT !.clients = @ \cup {clientId},
              !.stale = IF clientId \in h.clients THEN @ \cup {clientId} ELSE @]

removeClient(h, clientId) ==
    IF clientId \in h.clients
    THEN [h EXCEPT !.clients = @ \ {clientId}]
    ELSE h

(* The port of clientId dispatches 'message' to its listeners in the      *)
(* order they were added: the one left from a replaced registration, then  *)
(* the one of the current registration.                                    *)
onPortMessage(h, clientId, data, valid, now) ==
    LET first == IF clientId \in h.stale
                 THEN onClientMessage(h, clientId, data, valid, now)
                 ELSE h
    IN  IF clientId \in h.clients
        THEN onClientMessage(first, clientId, data, valid, now)
        ELSE first

drop(h) ==
    IF Len(h.es.events) > 0
    THEN [h EXCEPT !.es = removeEvent(@, h.es.events[Len(h.es.events)])]
    ELSE h

----------------------------------------------------------------------------
(* The host, fed by its clients' ports and its embedder *)

HostIds == 1..MaxHostId
HostTimes == 1..MaxHostTime

(* The filters a host can be constructed with: the one that shows every   *)
(* payload to every client, and the one that hides "ADD" from "c2".        *)
HostFilters ==
    {[p \in Payloads, c \in Clients |-> IF <<p, c>> \in hidden THEN Null ELSE p] :
        hidden \in SUBSET {<<"ADD", "c2">>}}

(* The orders a Map can hold the ids S in: the order they were first set   *)
(* in, which registrations in another order make any order of S.           *)
Orders(S) ==
    {entries \in [1..Cardinality(S) -> S] :
        \A i, j \in 1..Cardinality(S) : i # j => entries[i] # entries[j]}

(* The last call made on the host: its name, the id and the client it     *)
(* names and, for a proposal, whether it was accepted.                     *)
HostOp(name, id, clientId, accepted) ==
    [name |-> name, id |-> id, clientId |-> clientId, accepted |-> accepted]

(* The host as a record, at the start of a handler. *)
host ==
    [es |-> enter(es), clients |-> clients, pastEventIds |-> pastEventIds,
     filterForClient |-> filter, posts |-> [c \in Clients |-> <<>>],
     stale |-> stale]

HostBecomes(h) ==
    /\ es' = h.es
    /\ clients' = h.clients
    /\ pastEventIds' = h.pastEventIds
    /\ posts' = h.posts
    /\ filter' = h.filterForClient
    /\ stale' = h.stale

HostStill == UNCHANGED <<pending, timers, sent, ref, pre, add, pc, net>>

InitHost ==
    /\ \E f \in HostFilters :
           LET h == HostEventSource(BaseState(0), f)
           IN  /\ es = h.es
               /\ clients = h.clients
               /\ pastEventIds = h.pastEventIds
               /\ posts = h.posts
               /\ filter = h.filterForClient
               /\ stale = h.stale
    /\ op = HostOp("new", 0, HostSource, FALSE)
    /\ inbox = <<>>
    /\ clock = 0
    /\ pending = <<>>
    /\ timers = {}
    /\ sent = <<>>
    /\ ref = 0
    /\ pre = <<>>
    /\ add = <<>>
    /\ pc = "host"
    /\ net = NoPorts

AddClient ==
    \E clientId \in Clients \ clients :
        /\ HostBecomes(addClient(host, clientId))
        /\ op' = HostOp("addClient", 0, clientId, FALSE)
        /\ inbox' = <<>>
        /\ UNCHANGED clock
        /\ HostStill

RemoveClient ==
    \E clientId \in Clients :
        /\ HostBecomes(removeClient(host, clientId))
        /\ op' = HostOp("removeClient", 0, clientId, FALSE)
        /\ inbox' = <<>>
        /\ UNCHANGED clock
        /\ HostStill

(* A registered client's port delivers a proposal. *)
ReceiveProposal ==
    \E clientId \in clients, id \in HostIds, payload \in Payloads,
       valid \in BOOLEAN, now \in HostTimes \cup {clock} :
        LET data == EventMsg([id |-> id, payload |-> payload])
            accepted == validateClientEvent(host, data.event, clientId, valid)
        IN  /\ now >= clock
            /\ accepted => (now \in HostTimes /\ Len(es.events) < MaxHostLog)
            /\ id \in pastEventIds => ~valid      \* validate is not asked
            /\ ~accepted => now = clock           \* Date.now() is not called
            /\ HostBecomes(onClientMessage(host, clientId, data, valid, now))
            /\ op' = HostOp("receiveFromClient", id, clientId, accepted)
            /\ inbox' = data
            /\ clock' = IF accepted THEN now ELSE clock
            /\ HostStill

(* A registered client's port delivers a history request. *)
ReceiveRequestHistory ==
    \E clientId \in clients, since \in 0..MaxHostTime :
        LET data == RequestHistoryMsg(since)
        IN  /\ HostBecomes(onClientMessage(host, clientId, data, FALSE, clock))
            /\ op' = HostOp("requestHistory", 0, clientId, FALSE)
            /\ inbox' = data
            /\ UNCHANGED clock
            /\ HostStill

HostDispatch ==
    \E payload \in Payloads, now \in HostTimes,
       id \in HostIds \ (pastEventIds \cup idsOf(es.events)) :
        /\ now >= clock
        /\ Len(es.events) < MaxHostLog
        /\ \E entries \in Orders(clients) :
               HostBecomes(hostDispatch(host, payload, id, now, entries, {}))
        /\ op' = HostOp("dispatch", id, HostSource, FALSE)
        /\ inbox' = <<>>
        /\ clock' = now
        /\ HostStill

Drop ==
    /\ HostBecomes(drop(host))
    /\ op' = HostOp("drop", 0, HostSource, FALSE)
    /\ inbox' = <<>>
    /\ UNCHANGED clock
    /\ HostStill

NextHost ==
    \/ AddClient
    \/ RemoveClient
    \/ ReceiveProposal
    \/ ReceiveRequestHistory
    \/ HostDispatch
    \/ Drop

SpecHost == InitHost /\ [][NextHost]_vars

----------------------------------------------------------------------------
(* The host's registry: ports that are registered again, ports that throw *)

(* addClient for any id, registered or not; one replaced listener per port *)
(* at most.                                                                *)
RegisterClient ==
    \E clientId \in Clients \ stale :
        /\ HostBecomes(addClient(host, clientId))
        /\ op' = HostOp("addClient", 0, clientId, FALSE)
        /\ inbox' = <<>>
        /\ UNCHANGED clock
        /\ HostStill

(* The port of any client id delivers a proposal, whatever listens there. *)
PortProposal ==
    \E clientId \in Clients, id \in HostIds, payload \in Payloads,
       valid \in BOOLEAN, now \in HostTimes \cup {clock} :
        LET data == EventMsg([id |-> id, payload |-> payload])
            listeners == Cardinality({clientId} \cap stale)
                             + Cardinality({clientId} \cap clients)
            accepted == /\ listeners > 0
                        /\ validateClientEvent(host, data.event, clientId, valid)
        IN  /\ now >= clock
            /\ accepted => /\ now \in HostTimes
                           /\ Len(es.events) + listeners <= MaxRegistryLog
            /\ (id \in pastEventIds \/ listeners = 0) => ~valid
            /\ ~accepted => now = clock
            /\ HostBecomes(onPortMessage(host, clientId, data, valid, now))
            /\ op' = HostOp("portMessage", id, clientId, accepted)
            /\ inbox' = data
            /\ clock' = IF accepted THEN now ELSE clock
            /\ HostStill

(* The port of any client id delivers a history request. *)
PortRequestHistory ==
    \E clientId \in Clients, since \in 0..MaxHostTime :
        LET data == RequestHistoryMsg(since)
        IN  /\ HostBecomes(onPortMessage(host, clientId, data, FALSE, clock))
            /\ op' = HostOp("portRequestHistory", 0, clientId, FALSE)
            /\ inbox' = data
            /\ UNCHANGED clock
            /\ HostStill

(* dispatch while the port of one registered client throws from            *)
(* postMessage, or while none does; the op names the client whose port     *)
(* throws.                                                                 *)
DispatchToPorts ==
    \E payload \in Payloads, now \in HostTimes,
       id \in HostIds \ (pastEventIds \cup idsOf(es.events)),
       entries \in Orders(clients), failing \in clients \cup {HostSource} :
        /\ now >= clock
        /\ Len(es.events) < MaxRegistryLog
        /\ HostBecomes(hostDispatch(host, payload, id, now, entries, {failing}))
        /\ op' = HostOp("dispatch", id, failing, FALSE)
        /\ inbox' = <<>>
        /\ clock' = now
        /\ HostStill

NextRegistry ==
    \/ RegisterClient
    \/ RemoveClient
    \/ PortProposal
    \/ PortRequestHistory
    \/ DispatchToPorts

SpecRegistry == InitHost /\ [][NextRegistry]_vars

----------------------------------------------------------------------------
(* The host fed events with distinct ids *)

OrderIds == 1..MaxOrderId
OrderTimes == 1..MaxOrderTime

(* A registered client's port delivers a proposal whose id the host has    *)
(* never seen and which validate accepts; Date.now() does not go back.     *)
ProposeFresh ==
    \E clientId \in clients, payload \in Payloads, now \in OrderTimes,
       id \in OrderIds \ (pastEventIds \cup idsOf(es.events)) :
        LET data == EventMsg([id |-> id, payload |-> payload])
        IN  /\ now >= clock
            /\ Len(es.events) < MaxOrderLog
            /\ HostBecomes(onClientMessage(host, clientId, data, TRUE, now))
            /\ op' = HostOp("receiveFromClient", id, clientId, TRUE)
            /\ inbox' = data
            /\ clock' = now
            /\ HostStill

(* dispatch with an id generateEventId() has not returned before. *)
DispatchFresh ==
    \E payload \in Payloads, now \in OrderTimes,
       id \in OrderIds \ (pastEventIds \cup idsOf(es.events)),
       entries \in Orders(clients) :
        /\ now >= clock
        /\ Len(es.events) < MaxOrderLog
        /\ HostBecomes(hostDispatch(host, payload, id, now, entries, {}))
        /\ op' = HostOp("dispatch", id, HostSource, FALSE)
        /\ inbox' = <<>>
        /\ clock' = now
        /\ HostStill

NextHostOrder ==
    \/ AddClient
    \/ ProposeFresh
    \/ DispatchFresh

SpecHostOrder == InitHost /\ [][NextHostOrder]_vars

----------------------------------------------------------------------------
(* MockReconnectingPort and createMockPortPair *)

(* new MockReconnectingPort(connected) *)
MockReconnectingPort(connected) ==
    [connected |-> connected, messageQueue |-> <<>>]

Ports == {1, 2}

peer(p) == 3 - p

(* The pair createMockPortPair returns, with what the model records about *)
(* it: the messages each port handed to simulateMessageDelivery, the      *)
(* setTimeout(.., 0) callbacks waiting in the order they were set, the     *)
(* 'message' events each port dispatched, and how many messages the code   *)
(* around each port has posted.  A message is its number in that count.    *)
createMockPortPair ==
    [ports |-> [p \in Ports |-> MockReconnectingPort(TRUE)],
     delivered |-> [p \in Ports |-> <<>>],
     timeouts |-> <<>>,
     received |-> [p \in Ports |-> <<>>],
     posted |-> [p \in Ports |-> 0]]

simulateMessageDelivery(n, p, message) ==
    [n EXCEPT !.delivered[p] = Append(@, message)]

(* MockReconnectingPort.postMessage *)
portPostMessage(n, p, message) ==
    IF ~n.ports[p].connected
    THEN [n EXCEPT !.ports[p].messageQueue = Append(@, message)]
    ELSE simulateMessageDelivery(n, p, message)

(* The postMessage createMockPortPair installs on each port of the pair. *)
pairPostMessage(n, p, message) ==
    LET original == portPostMessage(n, p, message)
    IN  IF original.ports[1].connected /\ original.ports[2].connected
        THEN [original EXCEPT
                 !.timeouts = Append(@, [to |-> peer(p), data |-> message])]
        ELSE original

(* queuedMessages.forEach(message => this.postMessage(message)) *)
RECURSIVE postEach(_, _, _)
postEach(n, p, messages) ==
    IF messages = <<>> THEN n
    ELSE postEach(pairPostMessage(n, p, Head(messages)), p, Tail(messages))

(* The code around port p posts its next k messages. *)
RECURSIVE postNext(_, _, _)
postNext(n, p, k) ==
    IF k = 0 THEN n
    ELSE postNext(pairPostMessage([n EXCEPT !.posted[p] = @ + 1], p, n.posted[p] + 1),
                  p, k - 1)

(* MockReconnectingPort.connect; the 'connected' listeners post k          *)
(* messages between them.                                                  *)
connect(n, p, k) ==
    IF n.ports[p].connected THEN n
    ELSE LET on == [n EXCEPT !.ports[p].connected = TRUE]
             listened == postNext(on, p, k)
             queuedMessages == listened.ports[p].messageQueue
         IN  postEach([listened EXCEPT !.ports[p].messageQueue = <<>>],
                      p, queuedMessages)

(* MockReconnectingPort.disconnect; no 'disconnected' listener posts. *)
disconnect(n, p) ==
    IF ~n.ports[p].connected THEN n
    ELSE [n EXCEPT !.ports[p].connected = FALSE]

(* MockReconnectingPort.receiveMessage as the timeout's callback calls it: *)
(* what it throws when the port is disconnected is caught and dropped.     *)
receiveMessage(n, p, data) ==
    IF ~n.ports[p].connected THEN n
    ELSE [n EXCEPT !.received[p] = Append(@, data)]

(* The oldest waiting timeout runs. *)
runTimeout(n) ==
    receiveMessage([n EXCEPT !.timeouts = Tail(@)],
                   Head(n.timeouts).to, Head(n.timeouts).data)

InitPorts ==
    /\ net = createMockPortPair
    /\ es = EventSource(BaseState(0), DefaultSnapshotInterval, FALSE)
    /\ op = Op("new", 0)
    /\ NoHost
    /\ pending = <<>>
    /\ timers = {}
    /\ sent = <<>>
    /\ inbox = <<>>
    /\ clock = 0
    /\ ref = 0
    /\ pre = <<>>
    /\ add = <<>>
    /\ pc = "ports"

PortsStill ==
    UNCHANGED <<es, pending, timers, sent, inbox, clock, ref, pre, add, pc, hostVars>>

PostMessage ==
    \E p \in Ports :
        /\ net.posted[p] < MaxPosts
        /\ net' = postNext(net, p, 1)
        /\ op' = Op("postMessage", p)
        /\ PortsStill

Connect ==
    \E p \in Ports, k \in 0..MaxListenerPosts :
        /\ net.posted[p] + k <= MaxPosts
        /\ net' = connect(net, p, k)
        /\ op' = Op("connect", p)
        /\ PortsStill

Disconnect ==
    \E p \in Ports :
        /\ net' = disconnect(net, p)
        /\ op' = Op("disconnect", p)
        /\ PortsStill

RunTimeout ==
    /\ net.timeouts # <<>>
    /\ net' = runTimeout(net)
    /\ op' = Op("timeout", Head(net.timeouts).to)
    /\ PortsStill

NextPorts ==
    \/ PostMessage
    \/ Connect
    \/ Disconnect
    \/ RunTimeout

SpecPorts == InitPorts /\ [][NextPorts]_vars

----------------------------------------------------------------------------
(* Properties of the engine on its own (Spec) *)

SnapshotSound(e) ==
    \A i \in 1..Len(e.snapshots) :
        LET k == e.snapshots[i].eventIndex
        IN  /\ k <= Len(e.events)
            /\ e.snapshots[i].state = Fold(e.initialState, SubSeq(e.events, 1, k))

(* C1: after any sequence of dispatch (at the tail), insertEvents (sorted,  *)
(* ids new), removeEvent and createSnapshot the log is strictly ascending  *)
(* by (timestamp, id) and its ids are distinct, equal timestamps included. *)
C1_LogStrictlyOrdered ==
    Ascending(es.events) /\ DistinctIds(es.events)

(* C2: the state is the reducer folded over the log, in the log's stored   *)
(* order, from the current initial state.                                  *)
C2_StateIsFoldOfLog ==
    getState(es) = Fold(es.initialState, es.events)

(* An insertion into the past of a log that was rebaselined, a snapshot    *)
(* surviving it.                                                           *)
C2_Witness ==
    /\ op.name = "insertEvents"
    /\ Len(es.events) >= 2
    /\ es.events[1].id = op.id
    /\ Len(es.snapshots) > 0
    /\ es.initialState # BaseState(0)

(* C3: every snapshot (s, k) in the list is the fold of the reducer over   *)
(* the first k events of the current log from the current initial state.   *)
C3_SnapshotSound ==
    SnapshotSound(es)

(* An insertion behind a snapshot that is kept: the snapshot covers a      *)
(* proper, non-empty prefix and the inserted event lies after it.          *)
C3_Witness ==
    /\ op.name = "insertEvents"
    /\ Len(es.snapshots) > 0
    /\ es.snapshots[Len(es.snapshots)].eventIndex > 0
    /\ \E i \in 1..Len(es.events) :
           /\ es.events[i].id = op.id
           /\ i > es.snapshots[Len(es.snapshots)].eventIndex
           /\ i < Len(es.events)

(* The log without the events of an id. *)
Without(events, id) ==
    SelectSeq(events, LAMBDA x : x.id # id)

(* C5: removeEvent(e), for e in the log, leaves the log without e, the     *)
(* other events in their order, and the state the fold over what remains,  *)
(* whatever snapshots there were before or behind e.                       *)
C5_RemovalEquivalence ==
    [][(op'.name = "removeEvent" /\ op'.id \in idsOf(es.events)) =>
          /\ es'.events = Without(es.events, op'.id)
          /\ Len(es'.events) = Len(es.events) - 1
          /\ es'.initialState = es.initialState
          /\ getState(es') = Fold(es.initialState, Without(es.events, op'.id))]_vars

(* A removal from the middle of the log that kept the snapshot before the  *)
(* removed event.                                                          *)
C5_Witness ==
    /\ op.name = "removeEvent"
    /\ es.notified # <<>>
    /\ Len(es.snapshots) > 0
    /\ es.snapshots[Len(es.snapshots)].eventIndex > 0
    /\ Len(es.events) > es.snapshots[Len(es.snapshots)].eventIndex

----------------------------------------------------------------------------
(* Properties of the insertion scenario (SpecInsertion) *)

(* C4: dispatching pre and then inserting add ends with the same log and   *)
(* the same state as dispatching the (timestamp, id)-sorted union of pre   *)
(* and add one event at a time, for every snapshotInterval.                *)
C4_InsertionEquivalence ==
    pc = "done" =>
        /\ es.events = ref.events
        /\ getState(es) = getState(ref)

----------------------------------------------------------------------------
(* Properties of the engine with a throwing reducer (SpecFaulty) *)

(* C6: if the reducer throws during dispatch(event), the log, the state    *)
(* and the snapshot list are what they were before the call and no         *)
(* subscriber was notified.                                                *)
C6_DispatchAtomicOnFailure ==
    [][(op'.name = "dispatch" /\ es'.thrown) =>
          /\ es'.events = es.events
          /\ es'.state = es.state
          /\ es'.snapshots = es.snapshots
          /\ es'.notified = <<>>]_vars

(* C7: if the reducer throws during insertEvents, removeEvent or replay,   *)
(* the log, the snapshot list and the state are what they were before the  *)
(* call.                                                                   *)
C7_RewindAtomicOnFailure ==
    [][(op'.name \in {"insertEvents", "removeEvent", "replay"} /\ es'.thrown) =>
          /\ es'.events = es.events
          /\ es'.snapshots = es.snapshots
          /\ es'.state = es.state]_vars

----------------------------------------------------------------------------
(* Properties of the client (SpecClient) *)

Count(events, id) ==
    Cardinality({i \in 1..Len(events) : events[i].id = id})

(* C8: when the host's event for a pending id x arrives, x leaves pending, *)
(* the log holds exactly one event with id x, the host's, and the state    *)
(* has that event applied exactly once.                                    *)
C8_OptimisticConfirm ==
    [][(op'.name = "receiveFromHost" /\ mapHas(pending, op'.id)) =>
          /\ ~mapHas(pending', op'.id)
          /\ Count(es'.events, op'.id) = 1
          /\ \E i \in 1..Len(es'.events) : es'.events[i] = inbox'.event
          /\ Count(es'.state.applied, op'.id) = 1]_vars

(* C9: the same authoritative event message delivered a second time leaves *)
(* the client's log and state unchanged.                                   *)
C9_IdempotentDelivery ==
    [][(op'.name = "receiveFromHost" /\ inbox' = inbox) =>
          /\ es'.events = es.events
          /\ es'.state = es.state]_vars

(* C10: a rejection of a pending id removes it from pending and from the   *)
(* log and leaves the state the fold over the remaining log; a rejection   *)
(* of an id that is not pending changes neither pending, log nor state and *)
(* notifies nobody.                                                        *)
C10_RejectionRollback ==
    [][op'.name = "rejectPendingEvent" =>
          IF mapHas(pending, op'.id)
          THEN /\ pending' = mapDelete(pending, op'.id)
               /\ ~mapHas(pending', op'.id)
               /\ op'.id \notin idsOf(es'.events)
               /\ es'.events = Without(es.events, op'.id)
               /\ getState(es') = Fold(es'.initialState, es'.events)
          ELSE /\ pending' = pending
               /\ es'.events = es.events
               /\ es'.state = es.state
               /\ es'.notified = <<>>]_vars

(* A rejection that rolled an optimistic event back out of a log that      *)
(* keeps other events.                                                     *)
C10_Witness ==
    /\ op.name = "rejectPendingEvent"
    /\ es.notified # <<>>
    /\ op.id \in timers
    /\ ~mapHas(pending, op.id)
    /\ op.id \notin idsOf(es.events)
    /\ Len(es.events) >= 1

----------------------------------------------------------------------------
(* Properties of the host (SpecHost) *)

(* C11: a proposal carrying an id the host already accepted from a client  *)
(* is rejected with a rejection message and is not appended, so the host   *)
(* log holds at most one event per id.                                     *)
C11_DuplicateProposalRejected ==
    [][(op'.name = "receiveFromClient" /\ op'.id \in idsOf(es.events)) =>
          /\ ~op'.accepted
          /\ es'.events = es.events
          /\ posts'[op'.clientId] = <<RejectionMsg(op'.id)>>
          /\ DistinctIds(es'.events)]_vars

(* C12: every id in the host's log is in the host's past-id set, for       *)
(* client-originated events as well as host-originated ones.               *)
C12_LogIdsArePastIds ==
    idsOf(es.events) \subseteq pastEventIds

(* C13: an accepted proposal appends one authoritative event (the id and   *)
(* payload of the proposal, the host's clock, the proposer as source) and  *)
(* posts one event message to every registered client the filter gives a   *)
(* non-null image for, the proposer included, and nothing to the others.   *)
C13_AcceptedProposalBroadcast ==
    [][(op'.name = "receiveFromClient" /\ op'.accepted) =>
          LET authoritativeEvent ==
                  [id |-> op'.id,
                   payload |-> inbox'.event.payload,
                   timestamp |-> clock',
                   source |-> op'.clientId]
          IN  /\ es'.events = Append(es.events, authoritativeEvent)
              /\ \A c \in Clients :
                     posts'[c] =
                         IF c \in clients /\ filter[authoritativeEvent.payload, c] # Null
                         THEN <<EventMsg([authoritativeEvent EXCEPT
                                             !.payload = filter[@, c]])>>
                         ELSE <<>>]_vars

(* C14: a rejected proposal posts exactly one rejection to the proposer's  *)
(* port and nothing to any other client, and leaves the host's log, state, *)
(* snapshots and past-id set as they were.                                 *)
C14_RejectionIsLocal ==
    [][(op'.name = "receiveFromClient" /\ ~op'.accepted) =>
          /\ posts' = [c \in Clients |->
                          IF c = op'.clientId THEN <<RejectionMsg(op'.id)>> ELSE <<>>]
          /\ es'.events = es.events
          /\ es'.state = es.state
          /\ es'.snapshots = es.snapshots
          /\ pastEventIds' = pastEventIds]_vars

(* A duplicate id rejected while another client is registered and the log  *)
(* is not empty.                                                           *)
C14_Witness ==
    /\ op.name = "receiveFromClient"
    /\ ~op.accepted
    /\ op.id \in pastEventIds
    /\ posts[op.clientId] = <<RejectionMsg(op.id)>>
    /\ clients = Clients
    /\ Len(es.events) >= 1

(* The filtered images, for clientId, of the log's events after since, in  *)
(* the order of the log.                                                   *)
RECURSIVE HistoryFor(_, _, _)
HistoryFor(log, clientId, since) ==
    IF log = <<>> THEN <<>>
    ELSE LET image == filter[Head(log).payload, clientId]
         IN  (IF Head(log).timestamp > since /\ image # Null
              THEN <<[Head(log) EXCEPT !.payload = image]>>
              ELSE <<>>) \o HistoryFor(Tail(log), clientId, since)

(* C15: a history request from a client is answered with one eventHistory  *)
(* message on that client's port, holding in log order the filtered images *)
(* of the log's events with timestamp > since whose image is not null;     *)
(* nothing goes to other clients and the log, state and past-id set stay.  *)
C15_HistoryReply ==
    [][op'.name = "requestHistory" =>
          /\ posts' = [c \in Clients |->
                          IF c = op'.clientId
                          THEN <<EventHistoryMsg(
                                     HistoryFor(es.events, c, inbox'.since))>>
                          ELSE <<>>]
          /\ es'.events = es.events
          /\ es'.state = es.state
          /\ pastEventIds' = pastEventIds]_vars

(* A reply that holds some of the log's events and leaves others out. *)
C15_Witness ==
    /\ op.name = "requestHistory"
    /\ clients = Clients
    /\ Len(posts[op.clientId]) = 1
    /\ Len(posts[op.clientId][1].events) >= 1
    /\ Len(posts[op.clientId][1].events) < Len(es.events)

----------------------------------------------------------------------------
(* Properties of the client, continued (SpecClient) *)

(* The greatest timestamp in a log, 0 for the empty log. *)
newestTimestamp(events) ==
    IF events = <<>> THEN 0
    ELSE CHOOSE t \in {events[i].timestamp : i \in 1..Len(events)} :
             \A i \in 1..Len(events) : events[i].timestamp <= t

(* C16: on 'connected' the client posts one event message for every event  *)
(* in pending, in pending's order, and then exactly one requestHistory     *)
(* whose since is the greatest timestamp in its log, or 0 for the empty    *)
(* log.                                                                    *)
C16_ReconnectSequence ==
    [][op'.name = "connected" =>
          sent' = [i \in 1..Len(pending) |-> EventMsg(pending[i])]
                      \o <<RequestHistoryMsg(newestTimestamp(es.events))>>]_vars

(* C17: when an eventHistory message is handled, events whose id is in    *)
(* the log already are not inserted again, so a log that held every id at  *)
(* most once still does.                                                   *)
C17_HistoryFiltersDuplicates ==
    [][(op'.name = "eventHistory" /\ DistinctIds(es.events)) =>
          /\ \A id \in idsOf(es.events) : Count(es'.events, id) = 1
          /\ DistinctIds(es'.events)]_vars

(* C18: an authoritative event that is new to the client's log and not     *)
(* greater than the log's tail is integrated at its chronological          *)
(* position: a log ascending by (timestamp, id) stays ascending.           *)
C18_AuthoritativeEventKeepsOrder ==
    [][(/\ op'.name = "receiveFromHost"
        /\ op'.id \notin idsOf(es.events)
        /\ Ascending(es.events)) =>
          /\ inbox'.event \in elementsOf(es'.events)
          /\ Ascending(es'.events)]_vars

----------------------------------------------------------------------------
(* Properties of the client's timers (SpecClientLive) *)

(* C19: once the id of a proposal has left pending, by confirmation or by  *)
(* rejection, its retry task eventually stops: from some point on its      *)
(* timer is never armed again.                                             *)
C19_RetryTerminates ==
    \A id \in ClientIds :
        []((id \in timers /\ ~mapHas(pending, id)) => <>[](id \notin timers))

----------------------------------------------------------------------------
(* Properties of the engine's subscribers (SpecSubscribers) *)

(* C20: subscribe(cb) invokes cb exactly once, with the current state, and *)
(* changes neither log, state nor snapshots; the unsubscribe it returns    *)
(* removes cb and nobody else, invokes nobody, and does nothing when cb is *)
(* gone already; no later call invokes a callback that was unsubscribed.   *)
C20_SubscriberPriming ==
    [][/\ op'.name = "subscribe" =>
              /\ es'.calls = <<[callback |-> op'.id, state |-> getState(es)]>>
              /\ es'.subscribers = Append(es.subscribers, op'.id)
       /\ op'.name = "unsubscribe" =>
              /\ es'.calls = <<>>
              /\ es'.subscribers = SelectSeq(es.subscribers, LAMBDA x : x # op'.id)
       /\ op'.name \in {"subscribe", "unsubscribe"} =>
              /\ es'.events = es.events
              /\ es'.state = es.state
              /\ es'.snapshots = es.snapshots
       /\ op'.name \notin {"subscribe", "unsubscribe"} =>
              \A i \in 1..Len(es'.calls) :
                  es'.calls[i].callback \in elementsOf(es.subscribers)]_vars

(* A transition that notified the one subscriber left after the other was  *)
(* unsubscribed.                                                           *)
C20_Witness ==
    /\ op.name \in {"dispatch", "insertEvents", "removeEvent"}
    /\ es.closures = 2
    /\ Len(es.subscribers) = 1
    /\ Len(es.calls) = 1
    /\ es.calls[1].callback = es.subscribers[1]
    /\ es.calls[1].state = getState(es)

----------------------------------------------------------------------------
(* Properties of the engine's listeners (SpecListeners) *)

(* What notify hands out when nothing stops it: every subscriber of the    *)
(* list, in order, with the one state.                                     *)
CallsToAll(subscribers, state) ==
    [i \in 1..Len(subscribers) |-> [callback |-> subscribers[i], state |-> state]]

(* C21: a subscriber that throws stops nothing: every other subscriber is  *)
(* still called for the same transition with the same state, the exception *)
(* does not reach the caller of dispatch, insertEvents, removeEvent,       *)
(* replay or rebaseline, and the transition completes: the event is in the *)
(* log, the state is the new state, the automatic snapshot is taken.       *)
C21_ListenerIsolation ==
    [][op'.name \in {"dispatch", "insertEvents", "removeEvent", "replay", "rebaseline"} =>
          /\ ~es'.thrown
          /\ es'.notified # <<>> =>
                 es'.calls = CallsToAll(es.subscribers, getState(es'))
          /\ op'.name = "dispatch" =>
                 /\ Len(es'.events) = Len(es.events) + 1
                 /\ es'.events[Len(es'.events)].id = op'.id
                 /\ es'.state = applyEvent(es.state, es'.events[Len(es'.events)])
                 /\ Len(es'.events) - getLatestSnapshot(es).eventIndex
                        >= es.snapshotInterval =>
                        getLatestSnapshot(es') =
                            [eventIndex |-> Len(es'.events), state |-> es'.state]]_vars

(* A dispatch whose first subscriber threw: the second was called and the  *)
(* automatic snapshot was taken.                                           *)
C21_Witness ==
    /\ op.name = "dispatch"
    /\ Len(es.subscribers) = 2
    /\ es.subscribers[1] \in es.throwers
    /\ es.subscribers[2] \notin es.throwers
    /\ Len(es.calls) = 2
    /\ getLatestSnapshot(es).eventIndex = Len(es.events)

(* C22: one insertEvents with a non-empty list, or one removeEvent of an    *)
(* event of the log, invokes each subscriber exactly once, with the final  *)
(* state; neither the state rewound to nor a partially replayed state is   *)
(* passed to a subscriber.                                                 *)
C22_SingleNotificationPerRewind ==
    [][(\/ op'.name = "insertEvents" /\ op'.id > 0
        \/ op'.name = "removeEvent" /\ op'.id \in idsOf(es.events)) =>
          /\ es'.notified = <<getState(es')>>
          /\ es'.calls = CallsToAll(es.subscribers, getState(es'))]_vars

(* An insertion in front of the log that dropped the only snapshot and     *)
(* replayed both events from the initial state, with two subscribers.      *)
C22_Witness ==
    /\ op.name = "insertEvents"
    /\ op.id = 1
    /\ es.snapshotInterval = 1
    /\ Len(es.events) = 2
    /\ es.snapshots = <<>>
    /\ Len(es.subscribers) = 2
    /\ Len(es.calls) = 2

(* C23: insertEvents([]) and removeEvent(e) for an id that is not in the   *)
(* log leave the log, the state, the snapshot list and the subscriber list *)
(* unchanged and invoke no subscriber.                                     *)
C23_NoOps ==
    [][(\/ op'.name = "insertEvents" /\ op'.id = 0
        \/ op'.name = "removeEvent" /\ op'.id \notin idsOf(es.events)) =>
          /\ es'.events = es.events
          /\ es'.state = es.state
          /\ es'.snapshots = es.snapshots
          /\ es'.subscribers = es.subscribers
          /\ es'.notified = <<>>
          /\ es'.calls = <<>>]_vars

(* A removeEvent that notified nobody, on an engine with an event, a       *)
(* snapshot and a subscriber.                                              *)
C23_Witness ==
    /\ op.name = "removeEvent"
    /\ es.notified = <<>>
    /\ es.events # <<>>
    /\ es.snapshots # <<>>
    /\ es.subscribers # <<>>

----------------------------------------------------------------------------
(* Properties of the automatic snapshots (SpecDispatching) *)

(* C24: dispatch appends the snapshot (current state, log.length) exactly  *)
(* when, the event appended, log.length minus the newest snapshot's        *)
(* eventIndex (0 without one) is at least snapshotInterval, and leaves the *)
(* snapshot list alone otherwise; so a fresh engine with interval N holds  *)
(* after n dispatches exactly n \div N snapshots, the k-th with eventIndex *)
(* k * N and the state folded over the first k * N events.                 *)
C24_AutoSnapshotPolicy ==
    [][op'.name = "dispatch" =>
          /\ es'.snapshots =
                 IF Len(es'.events) - getLatestSnapshot(es).eventIndex
                        >= es.snapshotInterval
                 THEN Append(es.snapshots, [state |-> getState(es'),
                                            eventIndex |-> Len(es'.events)])
                 ELSE es.snapshots
          /\ Len(es'.snapshots) = Len(es'.events) \div es'.snapshotInterval
          /\ \A k \in 1..Len(es'.snapshots) :
                 es'.snapshots[k] =
                     [state |-> Fold(es'.initialState,
                                     SubSeq(es'.events, 1, k * es'.snapshotInterval)),
                      eventIndex |-> k * es'.snapshotInterval]]_vars

(* The fourth dispatch at interval 2 left the second snapshot. *)
C24_Witness ==
    /\ op.name = "dispatch"
    /\ es.snapshotInterval = 2
    /\ Len(es.events) = 4
    /\ Len(es.snapshots) = 2
    /\ es.snapshots[2].eventIndex = 4

----------------------------------------------------------------------------
(* Properties of replay and rebaseline (SpecListeners) *)

(* C25: replay(events) folds the events into the current state in their    *)
(* order, leaves the log and the snapshot list unchanged, and notifies     *)
(* each subscriber exactly once, after the last event has been applied.    *)
C25_Replay ==
    [][op'.name = "replay" =>
          /\ \E events \in AscendingSeqs(ListenerEvents, 2) :
                 /\ Len(events) = op'.id
                 /\ es'.state = Fold(es.state, events)
                 /\ es'.state.applied = es.state.applied \o events
          /\ es'.events = es.events
          /\ es'.snapshots = es.snapshots
          /\ es'.notified = <<getState(es')>>
          /\ es'.calls = CallsToAll(es.subscribers, getState(es'))]_vars

(* A replay of two events over a log with a snapshot, two subscribers      *)
(* notified with the state that is two events ahead of the log.            *)
C25_Witness ==
    /\ op.name = "replay"
    /\ op.id = 2
    /\ Len(es.events) = 1
    /\ Len(es.snapshots) = 1
    /\ Len(es.state.applied) = 3
    /\ Len(es.calls) = 2

(* C26: rebaseline(s) leaves an empty log, an empty snapshot list and the   *)
(* state s, and notifies each subscriber exactly once with s; s is the     *)
(* base of every later rewind: an insertEvents or removeEvent that rewinds *)
(* behind every snapshot replays the log from s, and no rewind leaves a    *)
(* state built on another base; rebaseline(s) right after rebaseline(s)    *)
(* leaves the log, the snapshots and the state as they were.               *)
C26_Rebaseline ==
    [][/\ op'.name = "rebaseline" =>
              /\ es'.events = <<>>
              /\ es'.snapshots = <<>>
              /\ es'.state = BaseState(op'.id)
              /\ es'.initialState = BaseState(op'.id)
              /\ es'.notified = <<BaseState(op'.id)>>
              /\ es'.calls = CallsToAll(es.subscribers, BaseState(op'.id))
       /\ (op'.name = "rebaseline" /\ op = op') =>
              /\ es'.events = es.events
              /\ es'.snapshots = es.snapshots
              /\ es'.state = es.state
       /\ (op'.name \in {"insertEvents", "removeEvent"} /\ es'.notified # <<>>) =>
              /\ es'.initialState = es.initialState
              /\ es'.state.base = es.initialState.base
              /\ es'.snapshots = <<>> =>
                     es'.state = Fold(es.initialState, es'.events)]_vars

(* An insertion that rewound to the base and replayed two events from the  *)
(* state the engine was rebaselined to.                                    *)
C26_Witness ==
    /\ op.name = "insertEvents"
    /\ es.notified # <<>>
    /\ es.initialState = BaseState(1)
    /\ es.snapshots = <<>>
    /\ Len(es.events) = 2
    /\ es.state = Fold(BaseState(1), es.events)

----------------------------------------------------------------------------
(* Properties of the port pair (SpecPorts) *)

(* C27: the messages posted on a port reach the peer in the order they     *)
(* were posted: one posted while the port was disconnected is buffered and *)
(* delivered at the next connect before every message posted after it,    *)
(* those the 'connected' listeners post during that connect included.      *)
C27_PortOrdering ==
    \A p \in Ports :
        /\ \A i, j \in 1..Len(net.received[p]) :
               i < j => net.received[p][i] < net.received[p][j]
        /\ \A i, j \in 1..Len(net.delivered[p]) :
               i < j => net.delivered[p][i] < net.delivered[p][j]

----------------------------------------------------------------------------
(* Properties of the host's registry (SpecRegistry) *)

(* C28: removeClient(clientId) detaches the client: from then on a message *)
(* delivered on the port that was registered for clientId changes neither  *)
(* the host's log, nor its state, nor its past ids and gets no reply, and  *)
(* a broadcast posts nothing to that port; removeClient for an id that is  *)
(* not registered changes nothing.                                         *)
C28_RemoveClientDetaches ==
    [][/\ (/\ op'.name \in {"portMessage", "portRequestHistory"}
           /\ op'.clientId \notin clients) =>
              /\ es'.events = es.events
              /\ es'.state = es.state
              /\ pastEventIds' = pastEventIds
              /\ \A c \in Clients : posts'[c] = <<>>
       /\ op'.name = "dispatch" =>
              \A c \in Clients \ clients : posts'[c] = <<>>
       /\ (op'.name = "removeClient" /\ op'.clientId \notin clients) =>
              /\ clients' = clients
              /\ es'.events = es.events
              /\ es'.state = es.state
              /\ pastEventIds' = pastEventIds
              /\ \A c \in Clients : posts'[c] = <<>>]_vars

(* C29: a port that throws from postMessage during a broadcast stops       *)
(* nothing: every other registered client whose filter result is not null  *)
(* still receives the event message, and the host's log and state keep the *)
(* dispatched event.                                                       *)
C29_BroadcastSurvivesFailingPort ==
    [][(op'.name = "dispatch" /\ op'.clientId \in clients) =>
          LET event == es'.events[Len(es'.events)]
          IN  /\ Len(es'.events) = Len(es.events) + 1
              /\ event.id = op'.id
              /\ es'.state = applyEvent(es.state, event)
              /\ \A c \in clients \ {op'.clientId} :
                     filter[event.payload, c] # Null =>
                         posts'[c] = <<EventMsg([event EXCEPT
                                         !.payload = filter[event.payload, c]])>>]_vars

----------------------------------------------------------------------------
(* Properties of the host's past ids (SpecHost) *)

(* C30: an event that leaves the host's log (removeEvent, as drop() does), *)
(* whether a client or the host originated it, leaves its id in the        *)
(* past-id set, so that a later proposal with that id is rejected and the  *)
(* id never enters the log again.                                          *)
C30_NoResurrection ==
    [][/\ \A id \in idsOf(es.events) \ idsOf(es'.events) : id \in pastEventIds'
       /\ (op'.name = "receiveFromClient" /\ op'.accepted) =>
              op'.id \notin pastEventIds]_vars

----------------------------------------------------------------------------
(* Properties of the host's log (SpecHostOrder) *)

(* C31: after accepted client proposals and host dispatches with distinct  *)
(* ids, under a host clock that never goes back but may return the same    *)
(* millisecond twice, the order of the events in the host's log is their   *)
(* order by timestamp, then id.                                            *)
C31_HostLogTotalOrder ==
    \A i, j \in 1..Len(es.events) :
        i < j => compareEvents(es.events[i], es.events[j]) < 0

----------------------------------------------------------------------------
(* Properties of the host's own dispatch (SpecHost) *)

(* C32: HostEventSource.dispatch(payload) appends to the host's log exactly *)
(* one event, with a fresh id, the source 'host' and the payload, adds the *)
(* id to the past ids, applies the reducer once, and posts one event        *)
(* message with that id to every registered client whose filterForClient   *)
(* result is not null.                                                     *)
C32_HostDispatch ==
    [][op'.name = "dispatch" =>
          LET event == es'.events[Len(es'.events)]
          IN  /\ Len(es'.events) = Len(es.events) + 1
              /\ SubSeq(es'.events, 1, Len(es.events)) = es.events
              /\ event.id = op'.id
              /\ event.id \notin pastEventIds \cup idsOf(es.events)
              /\ event.source = HostSource
              /\ pastEventIds' = pastEventIds \cup {event.id}
              /\ es'.state = applyEvent(es.state, event)
              /\ \A c \in clients :
                     filter[event.payload, c] # Null =>
                         posts'[c] = <<EventMsg([event EXCEPT
                                         !.payload = filter[event.payload, c]])>>]_vars

----------------------------------------------------------------------------
(* Properties of the snapshot list (SpecSnapshots) *)

(* C33: after any dispatch, insertEvents, removeEvent, createSnapshot (also *)
(* several with no dispatch between them), snapshot disposal and           *)
(* rebaseline, the eventIndex values of the snapshot list strictly         *)
(* increase from first to last.                                            *)
C33_SnapshotIndicesIncrease ==
    \A i, j \in 1..Len(es.snapshots) :
        i < j => es.snapshots[i].eventIndex < es.snapshots[j].eventIndex

(* C38: after any dispatch, insertEvents, removeEvent, createSnapshot,      *)
(* snapshot disposal and rebaseline, every snapshot's eventIndex k has     *)
(* 0 <= k <= log.length: no rewind splices past the end of the log.        *)
C38_SnapshotIndicesInsideLog ==
    \A i \in 1..Len(es.snapshots) :
        /\ 0 <= es.snapshots[i].eventIndex
        /\ es.snapshots[i].eventIndex <= Len(es.events)

(* The last event was removed: the snapshot taken behind it is gone, the   *)
(* one taken before it stays, at the end of the log.                       *)
C38_Witness ==
    /\ op.name = "removeEvent"
    /\ es.notified # <<>>
    /\ Len(es.events) = 1
    /\ es.snapshots # <<>>
    /\ es.snapshots[Len(es.snapshots)].eventIndex = 1

----------------------------------------------------------------------------
(* Properties of the client's pending set (SpecClient) *)

(* C34: after every operation of the client (propose, the handling of an   *)
(* event, rejection or eventHistory message, the handling of 'connected')  *)
(* every event of the pending set has an entry with its id in the client's *)
(* log.                                                                    *)
C34_PendingEventsAreInTheLog ==
    \A i \in 1..Len(pending) : pending[i].id \in idsOf(es.events)

(* A rejection took one of two proposals out of the log; the other is      *)
(* still pending and still in the log.                                     *)
C34_Witness ==
    /\ op.name = "rejectPendingEvent"
    /\ es.notified # <<>>
    /\ Len(pending) = 1
    /\ Len(es.events) = 1
    /\ pending[1].id = es.events[1].id

(* The event messages among the messages a handler posted. *)
EventMessages(messages) ==
    SelectSeq(messages, LAMBDA m : m.type = "event")

(* C35: the client posts the event message of a proposal when it proposes, *)
(* at a firing of its retry timer and at a 'connected' event, and at the   *)
(* latter two only if the id is pending at that moment; an id that has     *)
(* left the pending set never returns to it, so its event is never posted  *)
(* again; a firing of the retry timer while the id is pending does post it. *)
C35_ResendOnlyWhilePending ==
    [][/\ \A i \in 1..Len(EventMessages(sent')) :
              LET id == EventMessages(sent')[i].event.id
              IN  \/ op'.name = "propose" /\ op'.id = id
                  \/ op'.name = "retry" /\ op'.id = id /\ mapHas(pending, id)
                  \/ op'.name = "connected" /\ mapHas(pending, id)
       /\ \A id \in timers : ~mapHas(pending, id) => ~mapHas(pending', id)
       /\ (op'.name = "retry" /\ mapHas(pending, op'.id)) =>
              sent' = <<EventMsg(mapGet(pending, op'.id))>>
       /\ op'.name = "connected" =>
              EventMessages(sent') = [i \in 1..Len(pending) |-> EventMsg(pending[i])]]_vars

(* A retry timer fired and resent its proposal while an earlier proposal   *)
(* had left the pending set.                                               *)
C35_Witness ==
    /\ op.name = "retry"
    /\ mapHas(pending, op.id)
    /\ Len(sent) = 1
    /\ sent[1].type = "event"
    /\ sent[1].event.id = op.id
    /\ \E id \in timers : ~mapHas(pending, id)

----------------------------------------------------------------------------
(* Callbacks that change the subscriber list while they are notified *)

MaxCallbacks == 4
MaxCallbackLog == 1

(* What a callback does when it is called: it returns, it calls the        *)
(* unsubscribe function of a closure (its own or another one's) if it      *)
(* holds it already, or it subscribes a new callback that only returns.    *)
Returns == [kind |-> "returns", target |-> 0]

Subscribes == [kind |-> "subscribes", target |-> 0]

Unsubscribes(target) == [kind |-> "unsubscribes", target |-> target]

(* The closures whose unsubscribe function a callback may call. *)
Targets == {1, 2, 3}

Behaviours ==
    {Returns, Subscribes} \cup {Unsubscribes(target) : target \in Targets}

(* The events the engine is driven with. *)
CallbackEvents == BaseEvent({1, 2}, {1}, {"ADD"}, {"host"})

(* An engine whose callbacks are known by what they do. *)
CallbackEventSource(initialState, snapshotInterval) ==
    EventSource(initialState, snapshotInterval, FALSE) @@ [behaviours |-> <<>>]

(* subscribe, called from inside a callback, with a callback that returns. *)
subscribeReturning(e) ==
    LET callback == e.closures + 1
        pushed == [e EXCEPT !.closures = callback,
                            !.subscribers = Append(@, callback),
                            !.behaviours = Append(@, Returns)]
    IN  safeCallback(pushed, callback, pushed.state)

(* safeCallback(state) of a callback that acts on the subscriber list.     *)
(* While subscribe primes a callback, subscribe has not returned, so the   *)
(* callback does not hold its own unsubscribe function yet.                *)
actingCallback(e, callback, state, returned) ==
    LET called == safeCallback(e, callback, state)
        behaviour == e.behaviours[callback]
    IN  IF behaviour.kind = "unsubscribes"
        THEN IF /\ behaviour.target <= e.closures
                /\ (returned \/ behaviour.target # callback)
             THEN unsubscribe(called, behaviour.target)
             ELSE called
        ELSE IF behaviour.kind = "subscribes"
        THEN subscribeReturning(called)
        ELSE called

(* subscribe with a callback of the given behaviour. *)
subscribeActing(e, behaviour) ==
    LET callback == e.closures + 1
        pushed == [e EXCEPT !.closures = callback,
                            !.subscribers = Append(@, callback),
                            !.behaviours = Append(@, behaviour)]
    IN  actingCallback(pushed, callback, pushed.state, FALSE)

(* A pass over the subscriber list itself: what a callback removes or adds *)
(* moves the places the loop visits next.                                  *)
RECURSIVE callLive(_, _)
callLive(e, i) ==
    IF i > Len(e.subscribers) THEN e
    ELSE callLive(actingCallback(e, e.subscribers[i], e.state, TRUE), i + 1)

notifyLive(e) ==
    callLive([e EXCEPT !.notified = Append(@, e.state)], 1)

(* The loop of notify over the copy [...this.subscribers]. *)
RECURSIVE callCopied(_, _)
callCopied(e, copy) ==
    IF copy = <<>> THEN e
    ELSE callCopied(actingCallback(e, Head(copy), e.state, TRUE), Tail(copy))

notifyActing(e) ==
    callCopied([e EXCEPT !.notified = Append(@, e.state)], e.subscribers)

(* dispatch of an engine with such callbacks. *)
dispatchActing(e, event) ==
    LET pushed == [e EXCEPT !.events = Append(@, event)]
        applied == notifyActing([pushed EXCEPT !.state = applyEvent(@, event)])
    IN  IF Len(applied.events) - getLatestSnapshot(applied).eventIndex
               >= applied.snapshotInterval
        THEN createSnapshot(applied)
        ELSE applied

(* The callbacks of the list that subscribe another one when called. *)
Subscribing(e) ==
    {i \in 1..Len(e.subscribers) : e.behaviours[e.subscribers[i]] = Subscribes}

InitCallbacks ==
    /\ es = CallbackEventSource(BaseState(0), DefaultSnapshotInterval)
    /\ op = Op("new", 0)
    /\ Idle

CallbackSubscribe ==
    \E behaviour \in Behaviours :
        /\ es.closures + (IF behaviour = Subscribes THEN 2 ELSE 1) <= MaxCallbacks
        /\ es' = subscribeActing(enter(es), behaviour)
        /\ op' = Op("subscribe", es.closures + 1)
        /\ Still

CallbackUnsubscribe ==
    \E callback \in 1..es.closures :
        /\ es' = unsubscribe(enter(es), callback)
        /\ op' = Op("unsubscribe", callback)
        /\ Still

CallbackDispatch ==
    \E event \in CallbackEvents :
        /\ Len(es.events) < MaxCallbackLog
        /\ AtTail(event, es.events)
        /\ es.closures + Cardinality(Subscribing(es)) <= MaxCallbacks
        /\ es' = dispatchActing(enter(es), event)
        /\ op' = Op("dispatch", event.id)
        /\ Still

NextCallbacks ==
    \/ CallbackSubscribe
    \/ CallbackUnsubscribe
    \/ CallbackDispatch

SpecCallbacks == InitCallbacks /\ [][NextCallbacks]_vars

(* The number of calls of a callback during the last operation. *)
CallsOf(e, callback) ==
    Cardinality({i \in 1..Len(e.calls) : e.calls[i].callback = callback})

(* C36: a notification pass invokes exactly the subscribers registered at  *)
(* its start, each once, in their order and with the new state, whatever   *)
(* the callbacks unsubscribe or subscribe during the pass; a callback      *)
(* subscribed during the pass is called once, with the current state, and  *)
(* not again in that pass.                                                 *)
C36_PassUsesCopyOfList ==
    [][op'.name = "dispatch" =>
          /\ \A callback \in elementsOf(es.subscribers) :
                 CallsOf(es', callback) = 1
          /\ \A callback \in (es.closures + 1)..es'.closures :
                 CallsOf(es', callback) = 1
          /\ \A i \in 1..Len(es'.calls) :
                 /\ es'.calls[i].state = es'.state
                 /\ \/ es'.calls[i].callback \in elementsOf(es.subscribers)
                    \/ es'.calls[i].callback > es.closures
          /\ SelectSeq([i \in 1..Len(es'.calls) |-> es'.calls[i].callback],
                       LAMBDA callback : callback <= es.closures)
                 = es.subscribers]_vars

(* A pass in which a callback removed a later subscriber, which was still  *)
(* called, and another callback subscribed a new one.                      *)
C36_Witness ==
    /\ pc = "engine"
    /\ op.name = "dispatch"
    /\ "behaviours" \in DOMAIN es
    /\ \E i, j \in 1..Len(es.calls) :
           /\ i < j
           /\ es.behaviours[es.calls[i].callback] = Unsubscribes(es.calls[j].callback)
           /\ es.calls[j].callback \notin elementsOf(es.subscribers)
    /\ \E i \in 1..Len(es.calls) :
           /\ es.behaviours[es.calls[i].callback] = Subscribes
           /\ es.closures \in elementsOf(es.subscribers)

----------------------------------------------------------------------------
(* mergeSorted on its own *)

MaxKey == 2
MaxMergeLen == 2

(* The elements merged: a key the comparator looks at, and the input and   *)
(* place the element comes from, which the comparator does not look at.    *)
Items == [key : 1..MaxKey, from : {"left", "right"}, at : 1..MaxMergeLen]

(* Strict comparators: by key, ascending or descending. *)
Comparators == {"ascending", "descending"}

Comparator(name) ==
    [a \in Items, b \in Items |->
        IF name = "ascending" THEN a.key - b.key ELSE b.key - a.key]

(* An input array with the given keys. *)
Input(keys, from) ==
    [i \in 1..Len(keys) |-> [key |-> keys[i], from |-> from, at |-> i]]

KeySeqs == UNION {[1..n -> 1..MaxKey] : n \in 0..MaxMergeLen}

SortedUnder(seq, compare) ==
    \A i, j \in 1..Len(seq) : i < j => compare[seq[i], seq[j]] <= 0

InitMerge ==
    /\ \E name \in Comparators, left, right \in KeySeqs :
           /\ SortedUnder(Input(left, "left"), Comparator(name))
           /\ SortedUnder(Input(right, "right"), Comparator(name))
           /\ pre = Input(left, "left")
           /\ add = Input(right, "right")
           /\ op = Op("new", name)
    /\ es = <<>>
    /\ ref = <<>>
    /\ NoHost
    /\ pending = <<>>
    /\ timers = {}
    /\ sent = <<>>
    /\ inbox = <<>>
    /\ clock = 0
    /\ pc = "merge"
    /\ net = NoPorts

(* The call mergeSorted(left, right, compare); ref holds what it returns. *)
MergeSorted ==
    /\ pc = "merge"
    /\ op.name = "new"
    /\ ref' = mergeSorted(pre, add, Comparator(op.id))
    /\ op' = Op("mergeSorted", op.id)
    /\ UNCHANGED <<es, pending, timers, sent, inbox, clock, pre, add, pc, hostVars, net>>

NextMerge == MergeSorted

SpecMerge == InitMerge /\ [][NextMerge]_vars

(* C37: for inputs sorted under compare, what mergeSorted returns is       *)
(* sorted under compare, holds the elements of left in their order and the *)
(* elements of right in their order and nothing else, and has the left     *)
(* element before the right one wherever compare returns 0 for the two.    *)
C37_StableMerge ==
    (pc = "merge" /\ op.name = "mergeSorted") =>
        LET compare == Comparator(op.id)
        IN  /\ SortedUnder(ref, compare)
            /\ Len(ref) = Len(pre) + Len(add)
            /\ SelectSeq(ref, LAMBDA x : x.from = "left") = pre
            /\ SelectSeq(ref, LAMBDA x : x.from = "right") = add
            /\ \A i, j \in 1..Len(ref) :
                   (/\ ref[i].from = "left"
                    /\ ref[j].from = "right"
                    /\ compare[ref[i], ref[j]] = 0) => i < j

(* A merge that interleaved the inputs and met a tie between them. *)
C37_Witness ==
    /\ pc = "merge"
    /\ op.name = "mergeSorted"
    /\ \E i, j, k \in 1..Len(ref) :
           /\ i < j /\ j < k
           /\ ref[i].from = "left"
           /\ ref[j].from = "right"
           /\ ref[k].from = "left"
           /\ ref[i].key = ref[j].key
           /\ ref[j].key # ref[k].key

----------------------------------------------------------------------------
(* A client and a host on the two ports of a pair *)

MaxSessionTime == 2
MaxSessionLog == 2
MaxInFlight == 3

SessionClient == "c1"
ClientPort == 1
HostPort == 2
ProposalIds == {1}    \* what the client's generateEventId() returns
DispatchIds == {2}    \* what the host's generateEventId() returns

(* filterForClient shows the client every event, or none. *)
SessionFilters ==
    {[p \in Payloads, c \in Clients |-> IF c \in hidden THEN Null ELSE p] :
        hidden \in SUBSET {SessionClient}}

(* The fields the host reads of a message of the client, and the fields    *)
(* the client reads of a message of the host: the event's type on the      *)
(* client's side is its payload on the host's side.                        *)
asProposal(event) ==
    [id |-> event.id, payload |-> event.type]

asClientEvent(event) ==
    [id |-> event.id, timestamp |-> event.timestamp,
     type |-> event.payload, source |-> event.source]

hostReads(data) ==
    IF data.type = "event" THEN EventMsg(asProposal(data.event)) ELSE data

clientReads(data) ==
    IF data.type = "event" THEN EventMsg(asClientEvent(data.event))
    ELSE IF data.type = "eventHistory"
    THEN EventHistoryMsg([i \in 1..Len(data.events) |-> asClientEvent(data.events[i])])
    ELSE data

(* broadcast of the host of MockReconnectingPort.examples.test.ts. *)
RECURSIVE exampleBroadcast(_, _, _)
exampleBroadcast(h, authoritativeEvent, entries) ==
    IF entries = <<>> THEN h
    ELSE LET otherClientId == Head(entries)
             filtered ==
                 h.filterForClient[authoritativeEvent.payload, otherClientId]
         IN  IF filtered = Null
             THEN exampleBroadcast(h, authoritativeEvent, Tail(entries))
             ELSE exampleBroadcast(postTo(h, otherClientId,
                                          EventMsg([authoritativeEvent EXCEPT
                                                       !.payload = filtered])),
                                   authoritativeEvent, Tail(entries))

(* receiveFromClient of that host: the accepted id joins the past ids and  *)
(* the event is broadcast.                                                 *)
exampleReceiveFromClient(h, proposedEvent, clientId, valid, now, entries) ==
    IF ~validateClientEvent(h, proposedEvent, clientId, valid)
    THEN sendRejectionToClient(h, proposedEvent.id, clientId)
    ELSE LET authoritativeEvent ==
                 [id |-> proposedEvent.id,
                  payload |-> proposedEvent.payload,
                  timestamp |-> now,
                  source |-> clientId]
             added == [h EXCEPT !.pastEventIds = @ \cup {authoritativeEvent.id}]
             dispatched == [added EXCEPT !.es = dispatch(@, authoritativeEvent)]
         IN  exampleBroadcast(dispatched, authoritativeEvent, entries)

(* The 'message' listener its addClient puts on the port. *)
exampleOnClientMessage(h, clientId, data, valid, now, entries) ==
    IF data.type = "event"
    THEN exampleReceiveFromClient(h, data.event, clientId, valid, now, entries)
    ELSE IF data.type = "requestHistory"
    THEN postTo(h, clientId, EventHistoryMsg(eventsToSend(h, clientId, data.since)))
    ELSE h

(* MockReconnectingPort.connect with 'connected' listeners that post the   *)
(* given messages.                                                         *)
connectPosting(n, p, messages) ==
    IF n.ports[p].connected THEN n
    ELSE LET on == [n EXCEPT !.ports[p].connected = TRUE]
             listened == postEach(on, p, messages)
             queuedMessages == listened.ports[p].messageQueue
         IN  postEach([listened EXCEPT !.ports[p].messageQueue = <<>>],
                      p, queuedMessages)

(* The pair without the record of what the ports delivered and received. *)
unobserved(n) ==
    [n EXCEPT !.delivered = [p \in Ports |-> <<>>],
              !.received = [p \in Ports |-> <<>>]]

(* The messages waiting in a timeout or in a port's queue. *)
InFlight(n) ==
    Len(n.timeouts) + Len(n.ports[1].messageQueue) + Len(n.ports[2].messageQueue)

(* The host of the session, at the start of a handler. *)
sessionHost ==
    [ref EXCEPT !.es = enter(@), !.posts = [c \in Clients |-> <<>>]]

(* add holds the ids of the proposals the host's validate returns true    *)
(* for.                                                                    *)
validate(id) ==
    id \in add

(* pre tells how far the client's catch-up has come since its port last    *)
(* connected: connected with nothing in flight, history reply delivered.   *)
NotConnected == <<>>
Reconnected == <<"connected">>
CaughtUp == <<"eventHistory">>

InitPair(mode) ==
    /\ LET c == ClientEventSource(BaseState(0))
       IN  /\ es = c.es
           /\ pending = c.pending
           /\ timers = c.timers
           /\ sent = c.sent
    /\ \E f \in SessionFilters :
           ref = addClient(HostEventSource(BaseState(0), f), SessionClient)
    /\ net = createMockPortPair
    /\ op = Op("new", 0)
    /\ inbox = <<>>
    /\ clock = 1
    /\ pre = NotConnected
    /\ add \in SUBSET ProposalIds
    /\ pc = mode
    /\ NoHost

InitSession == InitPair("session")

InitExample == InitPair("example")

SessionPropose ==
    \E id \in ProposalIds, now \in clock..MaxSessionTime :
        /\ id \notin timers
        /\ Len(es.events) < MaxSessionLog
        /\ InFlight(net) < MaxInFlight
        /\ LET c == propose(client, "ADD", id, now)
           IN  /\ Becomes(c)
               /\ net' = unobserved(postEach(net, ClientPort, c.sent))
        /\ clock' = now
        /\ op' = Op("propose", id)
        /\ UNCHANGED <<inbox, ref, pre, add, pc, hostVars>>

SessionRetry ==
    \E id \in timers :
        /\ InFlight(net) < MaxInFlight
        /\ LET c == retry(client, id)
           IN  /\ Becomes(c)
               /\ net' = unobserved(postEach(net, ClientPort, c.sent))
        /\ op' = Op("retry", id)
        /\ UNCHANGED <<inbox, clock, ref, pre, add, pc, hostVars>>

SessionDisconnect ==
    \E p \in Ports :
        /\ net.ports[p].connected
        /\ net' = disconnect(net, p)
        /\ pre' = NotConnected
        /\ op' = Op("disconnect", p)
        /\ UNCHANGED <<es, pending, timers, sent, inbox, clock, ref, add, pc, hostVars>>

(* The client's port connects: its 'connected' listener resends and asks   *)
(* for the history, then the port flushes its queue.                       *)
SessionConnectClient ==
    /\ ~net.ports[ClientPort].connected
    /\ LET c == onConnected(client)
       IN  /\ InFlight(net) + Len(c.sent) <= MaxInFlight
           /\ Becomes(c)
           /\ net' = unobserved(connectPosting(net, ClientPort, c.sent))
    /\ pre' = IF InFlight(net) = 0 /\ net.ports[HostPort].connected
              THEN Reconnected ELSE NotConnected
    /\ op' = Op("connected", ClientPort)
    /\ UNCHANGED <<inbox, clock, ref, add, pc, hostVars>>

(* The host's port connects; the host listens to no 'connected' event. *)
SessionConnectHost ==
    /\ ~net.ports[HostPort].connected
    /\ net' = unobserved(connectPosting(net, HostPort, <<>>))
    /\ op' = Op("connected", HostPort)
    /\ UNCHANGED <<es, pending, timers, sent, inbox, clock, ref, pre, add, pc, hostVars>>

(* A timeout runs for a port that is disconnected: receiveMessage throws,  *)
(* the callback catches it and the message is gone.                        *)
SessionLoss ==
    /\ net.timeouts # <<>>
    /\ ~net.ports[Head(net.timeouts).to].connected
    /\ net' = unobserved(runTimeout(net))
    /\ op' = Op("lost", Head(net.timeouts).to)
    /\ UNCHANGED <<es, pending, timers, sent, inbox, clock, ref, pre, add, pc, hostVars>>

(* A timeout delivers a message of the host to the client's port. *)
SessionClientReceives ==
    /\ net.timeouts # <<>>
    /\ LET to == Head(net.timeouts).to
           data == clientReads(Head(net.timeouts).data)
       IN  /\ to = ClientPort
           /\ net.ports[to].connected
           /\ data.type = "event" => Len(es.events) < MaxSessionLog + 1
           /\ data.type = "eventHistory" =>
                  Len(es.events) + Len(data.events) <= MaxSessionLog + 1
           /\ Becomes(onMessage(client, data))
           /\ net' = unobserved(runTimeout(net))
           /\ pre' = IF data.type = "eventHistory" /\ pre = Reconnected
                     THEN CaughtUp ELSE pre
           /\ op' = Op(data.type,
                       IF data.type = "event" THEN data.event.id
                       ELSE IF data.type = "rejection" THEN data.eventId
                       ELSE 0)
    /\ UNCHANGED <<inbox, clock, ref, add, pc, hostVars>>

(* A timeout delivers a message of the client to the host's port. *)
SessionHostReceives ==
    /\ net.timeouts # <<>>
    /\ \E now \in clock..MaxSessionTime :
           LET to == Head(net.timeouts).to
               data == hostReads(Head(net.timeouts).data)
               valid == data.type = "event" /\ validate(data.event.id)
               h == IF pc = "example"
                    THEN exampleOnClientMessage(sessionHost, SessionClient, data,
                                                valid, now, <<SessionClient>>)
                    ELSE onPortMessage(sessionHost, SessionClient, data, valid, now)
           IN  /\ to = HostPort
               /\ net.ports[to].connected
               /\ data.type = "event" => Len(ref.es.events) < MaxSessionLog
               /\ data.type # "event" => now = clock
               /\ ref' = h
               /\ net' = unobserved(postEach(runTimeout(net), HostPort,
                                             h.posts[SessionClient]))
               /\ clock' = now
               /\ op' = Op("hostReceives", 0)
    /\ UNCHANGED <<es, pending, timers, sent, inbox, pre, add, pc, hostVars>>

(* The host's embedder dispatches an event of its own. *)
SessionHostDispatch ==
    \E id \in DispatchIds, now \in clock..MaxSessionTime :
        /\ id \notin idsOf(ref.es.events)
        /\ Len(ref.es.events) < MaxSessionLog
        /\ InFlight(net) < MaxInFlight
        /\ LET h == hostDispatch(sessionHost, "ADD", id, now, <<SessionClient>>, {})
           IN  /\ ref' = h
               /\ net' = unobserved(postEach(net, HostPort, h.posts[SessionClient]))
        /\ clock' = now
        /\ op' = Op("hostDispatch", id)
        /\ UNCHANGED <<es, pending, timers, sent, inbox, pre, add, pc, hostVars>>

NextSession ==
    \/ SessionPropose
    \/ SessionRetry
    \/ SessionDisconnect
    \/ SessionConnectClient
    \/ SessionConnectHost
    \/ SessionLoss
    \/ SessionClientReceives
    \/ SessionHostReceives
    \/ SessionHostDispatch

SpecSession == InitSession /\ [][NextSession]_vars

SpecExample == InitExample /\ [][NextSession]_vars

(* The client's port connected when nothing was in flight, the reply to    *)
(* its requestHistory has been delivered, nothing is in flight and nothing *)
(* is pending.                                                             *)
Settled ==
    /\ pre = CaughtUp
    /\ InFlight(net) = 0
    /\ \A p \in Ports : net.ports[p].connected
    /\ pending = <<>>

(* C39: once the client has reconnected, the reply to its requestHistory   *)
(* has been delivered, no message is in flight and nothing is pending,     *)
(* every event of the host's log that filterForClient shows the client has *)
(* an entry with its id in the client's log.                               *)
C39_CatchUpComplete ==
    (pc = "session" /\ Settled) =>
        \A i \in 1..Len(ref.es.events) :
            ref.filterForClient[ref.es.events[i].payload, SessionClient] # Null
                => ref.es.events[i].id \in idsOf(es.events)

(* C40: in the session with the host that records accepted ids and         *)
(* broadcasts, a rejection the client receives for an id that is in the    *)
(* host's log removes nothing from the client's log.                       *)
C40_AcceptedNeverRolledBack ==
    [][(pc = "example" /\ op'.name = "rejection"
            /\ op'.id \in idsOf(ref.es.events))
          => es'.events = es.events]_vars

====
